---- MODULE Spec2Model ----
(***************************************************************************)
(* Model of the GDG Ulaanbaatar news bot (src/bot.py): the feed            *)
(* aggregator, the multi-channel delivery pipeline fetch_and_post_news,    *)
(* the hourly scheduler news_check_task, the !news command and the         *)
(* mention handler on_message / handle_news_request.                       *)
(*                                                                         *)
(* Time is the wall clock in seconds.  Every coroutine is a process whose  *)
(* pc names the await it is suspended at; discord.py runs every event      *)
(* handler and the tasks.loop body as separate asyncio tasks, so the       *)
(* processes interleave at their awaits.                                   *)
(***************************************************************************)
EXTENDS Integers, Sequences, FiniteSets, TLC

VARIABLES
    now,                \* wall clock, seconds
    feeds,              \* what the two RSS feeds serve: [verge, cnet] -> Seq(entry)
    channel_ids,        \* GDGNewsBot.channel_ids
    strict_tech_filter, \* GDGNewsBot.strict_tech_filter
    last_check,         \* content of last_check.json: absent, corrupt or a valid time
    tick_due,           \* an iteration of the tasks.loop is due
    pc,                 \* per pipeline process: the await it is suspended at
    articles,           \* per run: local `articles`
    ti,                 \* per run: index of channel_id in channel_ids
    ai,                 \* per run: index i of the article loop (1-based)
    successful_posts,   \* per run: local `successful_posts`
    embed_links,        \* per run: permissions.embed_links of the current channel
    force,              \* per run: the force argument
    resolved,           \* history, per run: outcome of the channel lookup per target
    tried,              \* history, per run: <<target, article, outcome>> of every send
    wrote,              \* history, per run: save_last_check_time stored a new time
    escaped,            \* history, per process: an exception left the handler
    wire,               \* history: the last message accepted by the chat platform
    delivered,          \* history: log of the sends of scheduled runs, over all runs
    runs_started,       \* history: number of scheduled runs started so far
    restarts,           \* history: number of process restarts so far
    recent_mentions,    \* GDGNewsBot.recent_mentions: message_key -> time, NoTime if not in
    hpc,                \* per mention handler: the await it is suspended at
    harticles,          \* per mention handler: local `articles`
    hai,                \* per mention handler: index of the article loop
    hpath,              \* history, per handler: states of the on-demand machine visited
    hescaped,           \* history, per handler: an exception left the handler
    processed_at,       \* history: message_key -> time it was last processed
    last_event,         \* history: the last mention event seen by on_message
    call                \* the last call of a function followed on its own: arguments, result

deliveryVars == <<pc, articles, ti, ai, successful_posts, embed_links, force>>
deliveryHist == <<resolved, tried, wrote, escaped, wire>>
schedHist    == <<delivered, runs_started, restarts>>
mentionVars  == <<recent_mentions, hpc, harticles, hai, hpath, hescaped,
                  processed_at, last_event>>
configVars   == <<feeds, channel_ids, strict_tech_filter>>
unitVars     == <<call>>
vars == <<now, configVars, last_check, tick_due, deliveryVars, deliveryHist,
          schedHist, mentionVars, unitVars>>

----------------------------------------------------------------------------
(* Bounds of the model *)
MaxChannels == 2     \* configured channel ids
MaxVerge    == 2     \* entries served by The Verge feed
MaxCnet     == 1     \* entries served by the CNET feed
MaxHours    == 25    \* hours the scheduler specification follows the clock
MaxRestarts == 1     \* process restarts in the scheduler specification
MaxMessages == 2     \* distinct mentioning messages
MaxHandlers == 1     \* mention handlers in progress at once
MaxShortSteps == 2   \* clock instants after the start and after five minutes
MaxFeedLen  == 2     \* entries of each feed given to the aggregator on its own
MaxItems    == 2     \* distinct links among those entries
MaxCap      == 4     \* largest max_articles given to the aggregator
MaxEntries  == 4     \* entries of the feed given to the source adapter on its own
MaxCategories == 2   \* categories of an entry given to the classifier

(* Program constants *)
HourSeconds          == 3600
DaySeconds           == 86400
scheduled_hour       == 1
max_news_per_post    == 4
MaxPerSource         == 2
ScanLimit            == 20
LookbackHours        == 36
LoopMinutes          == 60
PostedWithinSeconds  == 3600
ArticleDelaySeconds  == 1
ChannelDelaySeconds  == 3

None == "None"
NoTime == -1      \* Python None where a datetime is expected

Min(a, b) == IF a < b THEN a ELSE b

----------------------------------------------------------------------------
(* The feeds.  An entry is what feedparser exposes: link, title,           *)
(* description, published (seconds, UTC instant), whether published_parsed *)
(* is usable, and the verdict of is_tech_news on its title, description    *)
(* and tags.                                                               *)

StartOfDay == 2 * DaySeconds
TriggerTime == StartOfDay + scheduled_hour * HourSeconds

VergePub == <<TriggerTime - 1 * HourSeconds, TriggerTime - 20 * HourSeconds,
              TriggerTime - 40 * HourSeconds>>
CnetPub  == <<TriggerTime - 1 * HourSeconds, TriggerTime - 2 * HourSeconds>>

VergeEntry(i) ==
    [link |-> <<"verge", i>>, title |-> <<"title", "verge", i>>,
     description |-> <<"description", "verge", i>>,
     published |-> VergePub[Min(i, Len(VergePub))], parsed |-> TRUE, tech |-> TRUE]

CnetEntry(i) ==
    [link |-> <<"cnet", i>>, title |-> <<"title", "cnet", i>>,
     description |-> <<"description", "cnet", i>>,
     published |-> CnetPub[Min(i, Len(CnetPub))], parsed |-> TRUE, tech |-> TRUE]

FeedChoices ==
    { [verge |-> [i \in 1..nv |-> VergeEntry(i)], cnet |-> [i \in 1..nc |-> CnetEntry(i)]] :
        nv \in 0..MaxVerge, nc \in 0..MaxCnet }

NewsArticle(entry, source_name) ==
    [title |-> entry.title, description |-> entry.description, link |-> entry.link,
     published |-> entry.published, author |-> source_name]

(* ScanEntries that gives up at the first entry outside the time window *)
RECURSIVE ScanEntriesStopAtOld(_, _, _, _, _, _)
ScanEntriesStopAtOld(entries, i, acc, cutoff_time, source_name, strict) ==
    IF i > Min(Len(entries), ScanLimit) THEN acc
    ELSE LET entry == entries[i] IN
         IF ~entry.parsed
         THEN ScanEntriesStopAtOld(entries, i + 1, acc, cutoff_time, source_name, strict)
         ELSE IF entry.published > cutoff_time
         THEN LET acc2 == IF ~strict \/ entry.tech
                          THEN Append(acc, [title |-> entry.title,
                                            description |-> entry.description,
                                            link |-> entry.link,
                                            published |-> entry.published,
                                            author |-> source_name])
                          ELSE acc
              IN  IF Len(acc2) >= MaxPerSource THEN acc2
                  ELSE ScanEntriesStopAtOld(entries, i + 1, acc2, cutoff_time,
                                            source_name, strict)
         ELSE acc

(* ScanEntries without the try of line 230 around the body of the loop: an *)
(* entry that cannot be processed ends the call in the except clause of    *)
(* line 267, which returns []                                              *)
RECURSIVE ScanEntriesNoInnerTry(_, _, _, _, _, _)
ScanEntriesNoInnerTry(entries, i, acc, cutoff_time, source_name, strict) ==
    IF i > Min(Len(entries), ScanLimit) THEN acc
    ELSE LET entry == entries[i] IN
         IF ~entry.parsed THEN <<>>
         ELSE IF entry.published > cutoff_time
         THEN LET acc2 == IF ~strict \/ entry.tech
                          THEN Append(acc, [title |-> entry.title,
                                            description |-> entry.description,
                                            link |-> entry.link,
                                            published |-> entry.published,
                                            author |-> source_name])
                          ELSE acc
              IN  IF Len(acc2) >= MaxPerSource THEN acc2
                  ELSE ScanEntriesNoInnerTry(entries, i + 1, acc2, cutoff_time,
                                             source_name, strict)
         ELSE ScanEntriesNoInnerTry(entries, i + 1, acc, cutoff_time, source_name, strict)

(* ScanEntries without the test of line 246: every entry inside the time   *)
(* window becomes an article                                               *)
RECURSIVE ScanEntriesUnfiltered(_, _, _, _, _, _)
ScanEntriesUnfiltered(entries, i, acc, cutoff_time, source_name, strict) ==
    IF i > Min(Len(entries), ScanLimit) THEN acc
    ELSE LET entry == entries[i] IN
         IF ~entry.parsed
         THEN ScanEntriesUnfiltered(entries, i + 1, acc, cutoff_time, source_name, strict)
         ELSE IF entry.published > cutoff_time
         THEN LET acc2 == Append(acc, [title |-> entry.title,
                                       description |-> entry.description,
                                       link |-> entry.link,
                                       published |-> entry.published,
                                       author |-> source_name])
              IN  IF Len(acc2) >= MaxPerSource THEN acc2
                  ELSE ScanEntriesUnfiltered(entries, i + 1, acc2, cutoff_time,
                                             source_name, strict)
         ELSE ScanEntriesUnfiltered(entries, i + 1, acc, cutoff_time, source_name, strict)

(* The for loop of _fetch_from_source over feed.entries[:20].  The break   *)
(* test sits inside the time-window branch, after the append.              *)
RECURSIVE ScanEntries(_, _, _, _, _, _)
ScanEntries(entries, i, acc, cutoff_time, source_name, strict) ==
    IF i > Min(Len(entries), ScanLimit) THEN acc
    ELSE LET entry == entries[i] IN
         IF ~entry.parsed
         THEN ScanEntries(entries, i + 1, acc, cutoff_time, source_name, strict)
         ELSE IF entry.published > cutoff_time
         THEN LET acc2 == IF ~strict \/ entry.tech
                          THEN Append(acc, NewsArticle(entry, source_name))
                          ELSE acc
              IN  IF Len(acc2) >= MaxPerSource THEN acc2
                  ELSE ScanEntries(entries, i + 1, acc2, cutoff_time, source_name, strict)
         ELSE ScanEntries(entries, i + 1, acc, cutoff_time, source_name, strict)

(* the except clauses of the aggregator: "source" is line 267 around the   *)
(* body of _fetch_from_source, "aggregate" line 213                        *)
SourceExceptClausesKeyError(level) ==
    CASE level = "source"    -> <<"KeyError">>
      [] level = "aggregate" -> <<"Exception">>

SourceExceptClauses(level) ==
    CASE level = "source"    -> <<"Exception">>
      [] level = "aggregate" -> <<"Exception">>

(* whether `exc` is caught by one of `clauses`, tried in order *)
RECURSIVE Caught(_, _)
Caught(clauses, exc) ==
    clauses # <<>> /\ (\/ Head(clauses) = "Exception"
                       \/ Head(clauses) = exc
                       \/ Caught(Tail(clauses), exc))

(* feedparser.parse fails: whether its exception leaves _fetch_from_source *)
FetchFromSourceRaises(reachable) ==
    ~reachable /\ ~Caught(SourceExceptClauses("source"), "URLError")

(* _fetch_from_source: [] when feedparser fails or serves no entry. *)
FetchFromSource(entries, reachable, source_name, t, strict) ==
    IF ~reachable \/ Len(entries) = 0 THEN <<>>
    ELSE ScanEntries(entries, 1, <<>>, t - LookbackHours * HourSeconds, source_name, strict)

(* InsertByPublished that puts an article before the ones of equal time *)
RECURSIVE InsertByPublishedUnstable(_, _)
InsertByPublishedUnstable(sorted, a) ==
    IF sorted = <<>> THEN <<a>>
    ELSE IF Head(sorted).published > a.published
         THEN <<Head(sorted)>> \o InsertByPublishedUnstable(Tail(sorted), a)
         ELSE <<a>> \o sorted

(* list.sort(key=published, reverse=True): stable, equal keys keep their order *)
RECURSIVE InsertByPublished(_, _)
InsertByPublished(sorted, a) ==
    IF sorted = <<>> THEN <<a>>
    ELSE IF Head(sorted).published >= a.published
         THEN <<Head(sorted)>> \o InsertByPublished(Tail(sorted), a)
         ELSE <<a>> \o sorted

RECURSIVE SortByPublished(_)
SortByPublished(s) ==
    IF s = <<>> THEN <<>>
    ELSE InsertByPublished(SortByPublished(SubSeq(s, 1, Len(s) - 1)), s[Len(s)])

(* an exception of an adapter leaves fetch_latest_articles too *)
FetchLatestArticlesRaises(vergeUp, cnetUp) ==
    /\ FetchFromSourceRaises(vergeUp) \/ FetchFromSourceRaises(cnetUp)
    /\ ~Caught(SourceExceptClauses("aggregate"), "URLError")

(* fetch_latest_articles: max_articles is not used by the body; [] from    *)
(* line 215 when an adapter raised                                         *)
FetchLatestArticles(f, vergeUp, cnetUp, t, strict, max_articles) ==
    IF FetchFromSourceRaises(vergeUp) \/ FetchFromSourceRaises(cnetUp) THEN <<>>
    ELSE
    SortByPublished(FetchFromSource(f.verge, vergeUp, "The Verge", t, strict)
                    \o FetchFromSource(f.cnet, cnetUp, "CNET", t, strict))

----------------------------------------------------------------------------
(* Translation and rendering *)

(* the marker "[...]" that line 84 puts before the original text *)
FailureMarker == "[translation failed]"

(* translate_to_mongolian returning the bare original on failure *)
TranslateToMongolianUnmarked(text, backend) ==
    IF backend = "ok" THEN <<"mn", text>> ELSE text

(* translate_to_mongolian: the backend's text, or the marked original *)
TranslateToMongolian(text, backend) ==
    IF backend = "ok" THEN <<"mn", text>> ELSE <<FailureMarker, text>>

(* create_news_embed *)
CreateNewsEmbed(article, titleBackend, descBackend) ==
    [form |-> "embed",
     title |-> TranslateToMongolian(article.title, titleBackend),
     description |-> TranslateToMongolian(article.description, descBackend),
     link |-> article.link]

(* the plain-text fallback of fetch_and_post_news *)
PlainText(article) ==
    [form |-> "plain", title |-> article.title, description |-> article.description,
     link |-> article.link]

----------------------------------------------------------------------------
(* The watermark file *)

AbsentFile  == [state |-> "absent", time |-> 0]
CorruptFile == [state |-> "corrupt", time |-> 0]
ValidFile(t) == [state |-> "valid", time |-> t]

(* a file that exists and is empty, that holds a JSON value without the   *)
(* key last_check, that holds a last_check that is no ISO timestamp        *)
EmptyFile   == [state |-> "empty", time |-> 0]
NoKeyFile   == [state |-> "no_key", time |-> 0]
BadTimeFile == [state |-> "bad_time", time |-> 0]

(* the exception that lines 274-277 raise on the file, None if none *)
ReadError(file) ==
    CASE file.state \in {"absent", "valid"}  -> None
      [] file.state \in {"empty", "corrupt"} -> "JSONDecodeError"
      [] file.state = "no_key"               -> "KeyError"
      [] file.state = "bad_time"             -> "ValueError"

(* the except clause of line 278, narrowed to the JSON error *)
WatermarkExceptClausesJSONOnly == <<"JSONDecodeError">>

(* the except clause of line 278 *)
WatermarkExceptClauses == <<"Exception">>

(* get_last_check_time: None for a missing or unreadable file *)
GetLastCheckTime(file) == IF file.state = "valid" THEN file.time ELSE NoTime

(* whether the exception of the read leaves get_last_check_time *)
GetLastCheckTimeRaises(file) ==
    ReadError(file) # None /\ ~Caught(WatermarkExceptClauses, ReadError(file))

(* save_last_check_time: open(..., 'w') truncates, json.dump writes *)
SaveLastCheckTime(file, t, io) ==
    CASE io = "ok"         -> ValidFile(t)
      [] io = "open_fail"  -> file
      [] io = "write_fail" -> CorruptFile

SaveOutcomes == {"ok", "open_fail", "write_fail"}

(* the two halves of save_last_check_time.  Line 285: open(..., 'w')       *)
(* truncates the file, or fails and leaves it.  Lines 286-287: json.dump   *)
(* and the close at the end of `with` put the new content in the file.     *)
OpenForWrite(file, io) == IF io = "open_fail" THEN file ELSE EmptyFile
DumpAndClose(t, io) == IF io = "write_fail" THEN CorruptFile ELSE ValidFile(t)

----------------------------------------------------------------------------
(* Exceptions.  discord.Forbidden is an HTTPException is an Exception.     *)

IsInstance(exc, cls) ==
    \/ cls = "Exception"
    \/ cls = exc
    \/ cls = "HTTPException" /\ exc = "Forbidden"

(* ExceptClauses without the `except discord.Forbidden` clause of line 937 *)
ExceptClausesNoForbidden(level) ==
    CASE level = "article" -> <<"Exception">>
      [] level = "channel" -> <<"Exception">>
      [] level = "run"     -> <<"Exception">>
      [] level = "task"    -> <<"Exception">>

(* ExceptClauses without the `except Exception` clause of line 940 *)
ExceptClausesForbiddenOnly(level) ==
    CASE level = "article" -> <<"Forbidden">>
      [] level = "channel" -> <<"Exception">>
      [] level = "run"     -> <<"Exception">>
      [] level = "task"    -> <<"Exception">>

(* ExceptClauses with every `except Exception` narrowed to HTTPException *)
ExceptClausesHTTPOnly(level) ==
    CASE level = "article" -> <<"Forbidden", "HTTPException">>
      [] level = "channel" -> <<"HTTPException">>
      [] level = "run"     -> <<"HTTPException">>
      [] level = "task"    -> <<"HTTPException">>

(* the except clauses of the try blocks of the pipeline, innermost first:  *)
(* "article" 925-942, "channel" 912-953, "run" 897-960, "task" 782-800     *)
ExceptClauses(level) ==
    CASE level = "article" -> <<"Forbidden", "Exception">>
      [] level = "channel" -> <<"Exception">>
      [] level = "run"     -> <<"Exception">>
      [] level = "task"    -> <<"Exception">>

(* the try blocks around a raise site; fetch_news has no try of its own *)
TryChain(p, site) ==
    (IF site = "send" THEN <<"article">> ELSE <<>>)
    \o <<"channel", "run">>
    \o (IF p = "sched" THEN <<"task">> ELSE <<>>)

RECURSIVE FirstClause(_, _)
FirstClause(clauses, exc) ==
    IF clauses = <<>> THEN None
    ELSE IF IsInstance(exc, Head(clauses)) THEN Head(clauses)
    ELSE FirstClause(Tail(clauses), exc)

(* where a raised exception lands: the first enclosing try with a matching *)
(* clause, or "escape" when it leaves the coroutine                        *)
RECURSIVE Unwind(_, _)
Unwind(chain, exc) ==
    IF chain = <<>> THEN [level |-> "escape", clause |-> None]
    ELSE IF FirstClause(ExceptClauses(Head(chain)), exc) # None
         THEN [level |-> Head(chain), clause |-> FirstClause(ExceptClauses(Head(chain)), exc)]
         ELSE Unwind(Tail(chain), exc)

----------------------------------------------------------------------------
(* Mentions: message_key is f"{message.id}_{message.channel.id}", which is *)
(* one-to-one on pairs of integers.                                        *)

MentionChannel == 101
Keys == {<<m, MentionChannel>> : m \in 1..MaxMessages}
NoKey == <<0, 0>>
Handlers == 1..MaxHandlers
NoEvent == [key |-> NoKey, within |-> FALSE, outcome |-> "none"]

(* no function has been called on its own yet *)
NoCall == [fn |-> "none"]

----------------------------------------------------------------------------
(* The delivery pipeline: fetch_and_post_news, run by news_check_task      *)
(* ("sched") and by the !news command ("cmd").  Each operation is given as *)
(* the step of the program and, separately, as the record it leaves in the *)
(* history variables.                                                      *)

Runs == {"sched", "cmd"}

ResolveOutcomes == {"missing", "perm_error", "no_send", "plain", "embed"}
SendOutcomes    == {"ok", "Forbidden", "HTTPException"}
Backends        == {"ok", "fail"}

NoMessage == [form |-> "none"]

(* where fetch_and_post_news returns to *)
ReturnTo(p) == IF p = "sched" THEN "idle" ELSE "notify"

(* lines 897-910 of fetch_and_post_news: fetch, the two early returns, and *)
(* the start of the channel loop                                           *)
BeginRun(p, vergeUp, cnetUp, f) ==
    LET arts == FetchLatestArticles(feeds, vergeUp, cnetUp, now, strict_tech_filter,
                                    max_news_per_post)
    IN  /\ articles' = [articles EXCEPT ![p] = arts]
        /\ force' = [force EXCEPT ![p] = f]
        /\ successful_posts' = [successful_posts EXCEPT ![p] = 0]
        /\ ti' = [ti EXCEPT ![p] = 1]
        /\ ai' = [ai EXCEPT ![p] = 1]
        /\ embed_links' = [embed_links EXCEPT ![p] = FALSE]
        /\ pc' = [pc EXCEPT ![p] = IF arts = <<>> \/ channel_ids = <<>>
                                   THEN ReturnTo(p) ELSE "resolve"]

RecordBegin(p) ==
    /\ resolved' = [resolved EXCEPT ![p] = {}]
    /\ tried' = [tried EXCEPT ![p] = {}]
    /\ wrote' = [wrote EXCEPT ![p] = FALSE]
    /\ UNCHANGED <<escaped, wire>>

(* the next iteration of `for channel_id in self.channel_ids`, or the code *)
(* after the loop                                                          *)
NextChannelPc(p) == IF ti[p] < Len(channel_ids) THEN "resolve" ELSE "save"
NextChannelTi(p) == IF ti[p] < Len(channel_ids) THEN ti[p] + 1 ELSE ti[p]

(* where control goes when an exception has landed in an except clause of  *)
(* the channel loop (continue), of fetch_and_post_news (return), of        *)
(* news_check_task (end of the iteration), or in none (the task dies)      *)
Landed(p, land) ==
    CASE land.level = "channel" ->
            /\ pc' = [pc EXCEPT ![p] = NextChannelPc(p)]
            /\ ti' = [ti EXCEPT ![p] = NextChannelTi(p)]
      [] land.level = "run" ->
            /\ pc' = [pc EXCEPT ![p] = ReturnTo(p)]
            /\ UNCHANGED ti
      [] land.level \in {"task", "escape"} ->
            /\ pc' = [pc EXCEPT ![p] = "idle"]
            /\ UNCHANGED ti

RecordRaise(p, site, exc) ==
    escaped' = [escaped EXCEPT ![p] = @ \/ Unwind(TryChain(p, site), exc).level = "escape"]

(* CanSend without the send_messages check of line 920 *)
CanSendUnchecked(r) == r \in {"plain", "embed", "no_send"}

(* lines 913-922: the channel exists and permissions.send_messages holds *)
CanSend(r) == r \in {"plain", "embed"}

(* lines 912-922: get_channel and the permission check of one channel *)
ResolveChannel(p, r) ==
    /\ pc[p] = "resolve"
    /\ CASE r = "perm_error" ->
              /\ Landed(p, Unwind(TryChain(p, "resolve"), "AttributeError"))
              /\ UNCHANGED <<ai, embed_links>>
         [] r # "perm_error" /\ CanSend(r) ->
              /\ embed_links' = [embed_links EXCEPT ![p] = (r = "embed")]
              /\ ai' = [ai EXCEPT ![p] = 1]
              /\ pc' = [pc EXCEPT ![p] = "send"]
              /\ UNCHANGED ti
         [] OTHER ->
              /\ pc' = [pc EXCEPT ![p] = NextChannelPc(p)]
              /\ ti' = [ti EXCEPT ![p] = NextChannelTi(p)]
              /\ UNCHANGED <<ai, embed_links>>
    /\ UNCHANGED <<now, configVars, unitVars, last_check, tick_due, articles, successful_posts,
                   force, mentionVars>>

RecordResolve(p, r) ==
    /\ resolved' = [resolved EXCEPT ![p] = @ \cup {<<ti[p], r>>}]
    /\ IF r = "perm_error" THEN RecordRaise(p, "resolve", "AttributeError")
                           ELSE UNCHANGED escaped
    /\ UNCHANGED <<tried, wrote, wire>>

(* lines 944-949: the code after the article loop *)
AfterArticleLoop(p) ==
    /\ successful_posts' = [successful_posts EXCEPT ![p] = @ + 1]
    /\ IF Len(channel_ids) > 1
       THEN /\ pc' = [pc EXCEPT ![p] = "sleep3"]
            /\ UNCHANGED ti
       ELSE /\ pc' = [pc EXCEPT ![p] = NextChannelPc(p)]
            /\ ti' = [ti EXCEPT ![p] = NextChannelTi(p)]

(* what the article loop hands to channel.send, lines 926-932 *)
Rendered(p, titleBackend, descBackend) ==
    IF embed_links[p]
    THEN CreateNewsEmbed(articles[p][ai[p]], titleBackend, descBackend)
    ELSE PlainText(articles[p][ai[p]])

(* lines 924-942: one iteration of the article loop, up to its sleep *)
SendArticle(p, o) ==
    /\ pc[p] = "send"
    /\ IF o = "ok"
       THEN IF ai[p] < Len(articles[p])
            THEN /\ pc' = [pc EXCEPT ![p] = "sleep1"]
                 /\ UNCHANGED <<ti, ai, successful_posts>>
            ELSE /\ AfterArticleLoop(p)
                 /\ UNCHANGED ai
       ELSE LET land == Unwind(TryChain(p, "send"), o) IN
            IF land.level = "article"
            THEN IF land.clause = "Forbidden" \/ ai[p] >= Len(articles[p])
                 THEN /\ AfterArticleLoop(p)      \* break, or continue past the last
                      /\ UNCHANGED ai
                 ELSE /\ ai' = [ai EXCEPT ![p] = @ + 1]   \* continue
                      /\ UNCHANGED <<pc, ti, successful_posts>>
            ELSE /\ Landed(p, land)
                 /\ UNCHANGED <<ai, successful_posts>>
    /\ UNCHANGED <<now, configVars, unitVars, last_check, tick_due, articles, embed_links, force,
                   mentionVars>>

RecordSend(p, titleBackend, descBackend, o) ==
    /\ tried' = [tried EXCEPT ![p] = @ \cup {<<ti[p], ai[p], o>>}]
    /\ wire' = IF o = "ok"
               THEN [run |-> p, channel |-> channel_ids[ti[p]], article |-> ai[p],
                     backends |-> IF embed_links[p] THEN <<titleBackend, descBackend>>
                                                    ELSE <<>>,
                     msg |-> Rendered(p, titleBackend, descBackend)]
               ELSE wire
    /\ IF o = "ok" THEN UNCHANGED escaped ELSE RecordRaise(p, "send", o)
    /\ UNCHANGED <<resolved, wrote>>

(* line 935: asyncio.sleep(1) between two articles *)
ArticleSleep(p) ==
    /\ pc[p] = "sleep1"
    /\ ai' = [ai EXCEPT ![p] = @ + 1]
    /\ pc' = [pc EXCEPT ![p] = "send"]
    /\ UNCHANGED <<now, configVars, unitVars, last_check, tick_due, articles, ti, successful_posts,
                   embed_links, force, mentionVars>>

(* line 949: asyncio.sleep(3) between two channels *)
ChannelSleep(p) ==
    /\ pc[p] = "sleep3"
    /\ pc' = [pc EXCEPT ![p] = NextChannelPc(p)]
    /\ ti' = [ti EXCEPT ![p] = NextChannelTi(p)]
    /\ UNCHANGED <<now, configVars, unitVars, last_check, tick_due, articles, ai, successful_posts,
                   embed_links, force, mentionVars>>

(* FinishRun where a forced run leaves the watermark alone *)
FinishRunForcedSkipsSave(p, io) ==
    /\ pc[p] = "save"
    /\ last_check' = IF successful_posts[p] > 0 /\ ~force[p]
                     THEN SaveLastCheckTime(last_check, now, io)
                     ELSE last_check
    /\ pc' = [pc EXCEPT ![p] = ReturnTo(p)]
    /\ UNCHANGED <<now, configVars, tick_due, articles, ti, ai, successful_posts,
                   embed_links, force, mentionVars>>

(* lines 955-957: the watermark is saved when successful_posts > 0 *)
FinishRun(p, io) ==
    /\ pc[p] = "save"
    /\ last_check' = IF successful_posts[p] > 0
                     THEN SaveLastCheckTime(last_check, now, io)
                     ELSE last_check
    /\ pc' = [pc EXCEPT ![p] = ReturnTo(p)]
    /\ UNCHANGED <<now, configVars, tick_due, articles, ti, ai, successful_posts,
                   embed_links, force, mentionVars>>

RecordFinish(p, io) ==
    /\ wrote' = [wrote EXCEPT ![p] = successful_posts[p] > 0 /\ io = "ok"]
    /\ UNCHANGED <<resolved, tried, escaped, wire>>

(* ScheduledRunDue that asks for a watermark older than an hour *)
ScheduledRunDueNeedsWatermark ==
    LET hour == (now \div HourSeconds) % 24
        last == GetLastCheckTime(last_check)
    IN  /\ hour = scheduled_hour
        /\ last # NoTime /\ now - last >= PostedWithinSeconds

(* lines 783-794 of news_check_task: the trigger hour and the one-hour guard *)
ScheduledRunDue ==
    LET hour == (now \div HourSeconds) % 24
        last == GetLastCheckTime(last_check)
    IN  /\ hour = scheduled_hour
        /\ ~(last # NoTime /\ now - last < PostedWithinSeconds)

(* news_check_task: one iteration of the tasks.loop *)
NewsCheckTask(vergeUp, cnetUp) ==
    /\ tick_due
    /\ pc["sched"] = "idle"
    /\ tick_due' = FALSE
    /\ IF ScheduledRunDue
       THEN BeginRun("sched", vergeUp, cnetUp, FALSE)
       ELSE UNCHANGED deliveryVars
    /\ UNCHANGED <<now, configVars, unitVars, last_check, mentionVars>>

RecordTick == IF ScheduledRunDue THEN RecordBegin("sched") ELSE UNCHANGED deliveryHist

(* fetch_news without the manage_messages check of line 546 *)
FetchNewsCommandUnchecked(privileged) ==
    /\ pc["cmd"] = "idle"
    /\ pc' = [pc EXCEPT !["cmd"] = "ack"]
    /\ UNCHANGED <<now, configVars, last_check, tick_due, articles, ti, ai,
                   successful_posts, embed_links, force, mentionVars>>

(* fetch_news, lines 546-550: the permission check and the first ctx.send *)
FetchNewsCommand(privileged) ==
    /\ pc["cmd"] = "idle"
    /\ pc' = [pc EXCEPT !["cmd"] = IF privileged THEN "ack" ELSE "refuse"]
    /\ UNCHANGED <<now, configVars, last_check, tick_due, articles, ti, ai,
                   successful_posts, embed_links, force, mentionVars>>

(* fetch_news, line 547-548: the refusal has been sent (or the send raised) *)
FetchNewsRefused(o) ==
    /\ pc["cmd"] = "refuse"
    /\ pc' = [pc EXCEPT !["cmd"] = "idle"]
    /\ UNCHANGED <<now, configVars, last_check, tick_due, articles, ti, ai,
                   successful_posts, embed_links, force, mentionVars>>

(* fetch_news, lines 550-551: after the first ctx.send, the call of        *)
(* fetch_and_post_news(force=True); an exception of ctx.send leaves the    *)
(* command                                                                 *)
FetchNewsRun(o, vergeUp, cnetUp) ==
    /\ pc["cmd"] = "ack"
    /\ IF o = "ok"
       THEN BeginRun("cmd", vergeUp, cnetUp, TRUE)
       ELSE /\ pc' = [pc EXCEPT !["cmd"] = "idle"]
            /\ UNCHANGED <<articles, ti, ai, successful_posts, embed_links, force>>
    /\ UNCHANGED <<now, configVars, last_check, tick_due, mentionVars>>

(* fetch_news, line 552: the closing ctx.send *)
FetchNewsDone(o) ==
    /\ pc["cmd"] = "notify"
    /\ pc' = [pc EXCEPT !["cmd"] = "idle"]
    /\ UNCHANGED <<now, configVars, last_check, tick_due, articles, ti, ai,
                   successful_posts, embed_links, force, mentionVars>>

----------------------------------------------------------------------------
(* State after construction *)

InitDelivery ==
    /\ pc = [p \in Runs |-> "idle"]
    /\ articles = [p \in Runs |-> <<>>]
    /\ ti = [p \in Runs |-> 1]
    /\ ai = [p \in Runs |-> 1]
    /\ successful_posts = [p \in Runs |-> 0]
    /\ embed_links = [p \in Runs |-> FALSE]
    /\ force = [p \in Runs |-> FALSE]
    /\ resolved = [p \in Runs |-> {}]
    /\ tried = [p \in Runs |-> {}]
    /\ wrote = [p \in Runs |-> FALSE]
    /\ escaped = [p \in Runs |-> FALSE]
    /\ wire = NoMessage
    /\ delivered = <<>>
    /\ runs_started = 0
    /\ restarts = 0

InitMention ==
    /\ recent_mentions = [k \in Keys |-> NoTime]
    /\ hpc = [h \in Handlers |-> "idle"]
    /\ harticles = [h \in Handlers |-> <<>>]
    /\ hai = [h \in Handlers |-> 1]
    /\ hpath = [h \in Handlers |-> <<>>]
    /\ hescaped = [h \in Handlers |-> FALSE]
    /\ processed_at = [k \in Keys |-> NoTime]
    /\ last_event = NoEvent

InitConfig ==
    /\ feeds \in FeedChoices
    /\ channel_ids \in {[i \in 1..n |-> 100 + i] : n \in 1..MaxChannels}
    /\ strict_tech_filter = TRUE
    /\ last_check = AbsentFile
    /\ tick_due = TRUE

----------------------------------------------------------------------------
(* Spec: one scheduled run of the pipeline in the trigger hour, every      *)
(* external call failing or succeeding freely, with its history recorded.  *)

Init ==
    /\ now = TriggerTime
    /\ InitConfig
    /\ InitDelivery
    /\ InitMention
    /\ call = NoCall

Tick ==
    \E vergeUp \in BOOLEAN, cnetUp \in BOOLEAN :
        NewsCheckTask(vergeUp, cnetUp) /\ RecordTick /\ UNCHANGED schedHist
Resolve ==
    \E r \in ResolveOutcomes :
        ResolveChannel("sched", r) /\ RecordResolve("sched", r) /\ UNCHANGED schedHist
Send ==
    \E tb \in Backends, db \in Backends, o \in SendOutcomes :
        SendArticle("sched", o) /\ RecordSend("sched", tb, db, o) /\ UNCHANGED schedHist
PaceArticle == ArticleSleep("sched") /\ UNCHANGED <<deliveryHist, schedHist>>
PaceChannel == ChannelSleep("sched") /\ UNCHANGED <<deliveryHist, schedHist>>
Finish ==
    \E io \in SaveOutcomes :
        FinishRun("sched", io) /\ RecordFinish("sched", io)
        /\ UNCHANGED <<schedHist, unitVars>>

Next == Tick \/ Resolve \/ Send \/ PaceArticle \/ PaceChannel \/ Finish

Spec == Init /\ [][Next]_vars

----------------------------------------------------------------------------
(* SpecConcurrent: the scheduled run and a !news command as two asyncio    *)
(* tasks of the same event loop, interleaving at their awaits.             *)

ConcTick ==
    \E vergeUp \in BOOLEAN, cnetUp \in BOOLEAN :
        NewsCheckTask(vergeUp, cnetUp) /\ UNCHANGED <<deliveryHist, schedHist>>
ConcCommand ==
    \E privileged \in BOOLEAN :
        FetchNewsCommand(privileged) /\ UNCHANGED <<deliveryHist, schedHist, unitVars>>
ConcRefused ==
    \E o \in SendOutcomes : FetchNewsRefused(o) /\ UNCHANGED <<deliveryHist, schedHist, unitVars>>
ConcCommandRun ==
    \E o \in SendOutcomes, vergeUp \in BOOLEAN, cnetUp \in BOOLEAN :
        FetchNewsRun(o, vergeUp, cnetUp) /\ UNCHANGED <<deliveryHist, schedHist, unitVars>>
ConcCommandDone ==
    \E o \in SendOutcomes : FetchNewsDone(o) /\ UNCHANGED <<deliveryHist, schedHist, unitVars>>
ConcResolve ==
    \E p \in Runs, r \in ResolveOutcomes :
        ResolveChannel(p, r) /\ UNCHANGED <<deliveryHist, schedHist>>
ConcSend ==
    \E p \in Runs, o \in SendOutcomes :
        SendArticle(p, o) /\ UNCHANGED <<deliveryHist, schedHist>>
ConcPaceArticle == \E p \in Runs : ArticleSleep(p) /\ UNCHANGED <<deliveryHist, schedHist>>
ConcPaceChannel == \E p \in Runs : ChannelSleep(p) /\ UNCHANGED <<deliveryHist, schedHist>>
ConcFinish ==
    \E p \in Runs, io \in SaveOutcomes :
        FinishRun(p, io) /\ UNCHANGED <<deliveryHist, schedHist, unitVars>>

NextConcurrent ==
    \/ ConcTick \/ ConcCommand \/ ConcRefused \/ ConcCommandRun \/ ConcCommandDone
    \/ ConcResolve \/ ConcSend \/ ConcPaceArticle \/ ConcPaceChannel \/ ConcFinish

SpecConcurrent == Init /\ [][NextConcurrent]_vars

(* a process is inside fetch_and_post_news *)
InRun(p) == pc[p] \in {"resolve", "send", "sleep1", "sleep3", "save"}

----------------------------------------------------------------------------
(* Properties of one pipeline run (Spec)                                   *)

Targets == 1..Len(channel_ids)
OkSends(p) == {x \in tried[p] : x[3] = "ok"}
Attempted(p, t) == {x[2] : x \in {y \in tried[p] : y[1] = t}}
Visited(p) == {x[1] : x \in resolved[p]}
RunOver(p) == pc[p] \in {"idle", "notify"}

(* C1: when a run of fetch_and_post_news is over, the watermark was        *)
(* written in that run if and only if at least one send of an article to   *)
(* some target succeeded in that run.                                      *)
C1_WatermarkIffSuccessfulSend ==
    RunOver("sched") => (wrote["sched"] <=> OkSends("sched") # {})

(* C3: when the send of article k to a target fails with Forbidden, no     *)
(* article after k is attempted on that target in that run, the sends of   *)
(* articles 1..k-1 stay recorded, every later target is still looked up by *)
(* the end of the run, and no exception leaves the run.                    *)
C3_ForbiddenAbortsTargetOnly ==
    \A x \in tried["sched"] :
        x[3] = "Forbidden" =>
            /\ \A a \in Attempted("sched", x[1]) : a <= x[2]
            /\ Attempted("sched", x[1]) = 1..x[2]
            /\ ~(pc["sched"] = "send" /\ ti["sched"] = x[1])
            /\ ~(pc["sched"] = "sleep1" /\ ti["sched"] = x[1])
            /\ ti["sched"] >= x[1]
            /\ RunOver("sched") => Visited("sched") = Targets
            /\ ~escaped["sched"]

C3_Witness ==
    /\ RunOver("sched")
    /\ Len(articles["sched"]) >= 3
    /\ Len(channel_ids) >= 2
    /\ <<1, 1, "ok">> \in tried["sched"]
    /\ <<1, 2, "Forbidden">> \in tried["sched"]
    /\ <<2, 1, "ok">> \in tried["sched"]

(* C4: a target whose channel is not found or that lacks send_messages     *)
(* gets no send attempt in the run, and by the end of a run that had       *)
(* articles every configured target has been looked up.                    *)
C4_UnsendableTargetSkipped ==
    /\ \A x \in resolved["sched"] :
          x[2] \in {"missing", "no_send"} => Attempted("sched", x[1]) = {}
    /\ (RunOver("sched") /\ resolved["sched"] # {}) => Visited("sched") = Targets

C4_Witness ==
    /\ RunOver("sched")
    /\ <<1, "no_send">> \in resolved["sched"]
    /\ <<2, 1, "ok">> \in tried["sched"]

(* C5: when the send of article a fails with an error other than           *)
(* Forbidden and a is not the last article, article a+1 is attempted next  *)
(* on the same target; the articles attempted on a target are always a     *)
(* prefix 1..m of the aggregator's list, each attempted once.              *)
C5_OtherErrorSkipsArticleOnly ==
    /\ \A x \in tried["sched"] :
          (x[3] = "HTTPException" /\ x[2] < Len(articles["sched"])) =>
              \/ x[2] + 1 \in Attempted("sched", x[1])
              \/ /\ pc["sched"] = "send"
                 /\ ti["sched"] = x[1]
                 /\ ai["sched"] = x[2] + 1
    /\ \A x \in tried["sched"] : 1..x[2] \subseteq Attempted("sched", x[1])
    /\ \A x \in tried["sched"], y \in tried["sched"] :
          (x[1] = y[1] /\ x[2] = y[2]) => x = y

C5_Witness ==
    /\ <<1, 1, "HTTPException">> \in tried["sched"]
    /\ <<1, 2, "ok">> \in tried["sched"]
    /\ <<1, 3, "HTTPException">> \in tried["sched"]

(* C6: whatever fails, no exception leaves news_check_task or the run it   *)
(* started.                                                                *)
C6_NothingEscapesTheTick == ~escaped["sched"]

C6_Witness ==
    /\ RunOver("sched")
    /\ <<1, "perm_error">> \in resolved["sched"]
    /\ \E x \in tried["sched"] : x[3] = "HTTPException"
    /\ \E x \in tried["sched"] : x[3] = "Forbidden"
    /\ last_check = CorruptFile

(* C7: a message sent as an embed carries, for a field whose translation   *)
(* failed, the original text behind the failure marker, and for a field    *)
(* whose translation succeeded the translated text.                        *)
C7_FailedTranslationIsMarked ==
    (wire # NoMessage /\ wire.msg.form = "embed") =>
        LET a == articles[wire.run][wire.article] IN
        /\ wire.backends[1] = "fail" => wire.msg.title = <<FailureMarker, a.title>>
        /\ wire.backends[2] = "fail" =>
               wire.msg.description = <<FailureMarker, a.description>>
        /\ wire.backends[1] = "ok" => wire.msg.title = <<"mn", a.title>>
        /\ wire.backends[2] = "ok" => wire.msg.description = <<"mn", a.description>>
        /\ wire.msg.link = a.link

C7_Witness ==
    /\ wire # NoMessage
    /\ wire.msg.form = "embed"
    /\ wire.backends = <<"ok", "fail">>
    /\ wire.article = 1
    /\ pc["sched"] = "send"
    /\ ai["sched"] = 2

----------------------------------------------------------------------------
(* Properties of concurrent runs (SpecConcurrent)                          *)

(* C2: at no time are two runs of the pipeline in progress at once.        *)
C2_NoTwoRunsAtOnce == ~(InRun("sched") /\ InRun("cmd"))

----------------------------------------------------------------------------
(* SpecSched: the scheduler followed hour by hour over more than one day,  *)
(* across process restarts, with a healthy chat platform.                  *)

(* sixty minutes pass; the tasks.loop schedules its next iteration *)
AdvanceHour ==
    /\ now + LoopMinutes * 60 <= TriggerTime - HourSeconds + MaxHours * HourSeconds
    /\ now' = now + LoopMinutes * 60
    /\ tick_due' = TRUE
    /\ UNCHANGED <<configVars, unitVars, last_check, deliveryVars, deliveryHist, schedHist,
                   mentionVars>>

(* the process is restarted: memory is lost, last_check.json is kept, and  *)
(* on_ready starts news_check_task, whose first iteration runs at once     *)
Restart ==
    /\ restarts < MaxRestarts
    /\ restarts' = restarts + 1
    /\ pc' = [p \in Runs |-> "idle"]
    /\ articles' = [p \in Runs |-> <<>>]
    /\ ti' = [p \in Runs |-> 1]
    /\ ai' = [p \in Runs |-> 1]
    /\ successful_posts' = [p \in Runs |-> 0]
    /\ embed_links' = [p \in Runs |-> FALSE]
    /\ force' = [p \in Runs |-> FALSE]
    /\ tick_due' = TRUE
    /\ UNCHANGED <<now, configVars, unitVars, last_check, deliveryHist, delivered, runs_started,
                   mentionVars>>

SchedTick ==
    /\ NewsCheckTask(TRUE, TRUE)
    /\ runs_started' = IF ScheduledRunDue THEN runs_started + 1 ELSE runs_started
    /\ UNCHANGED <<deliveryHist, delivered, restarts>>

SchedResolve ==
    \E r \in {"plain", "embed"} :
        ResolveChannel("sched", r) /\ UNCHANGED <<deliveryHist, schedHist>>

SchedSend ==
    /\ SendArticle("sched", "ok")
    /\ delivered' = Append(delivered, [run |-> runs_started,
                                       channel |-> channel_ids[ti["sched"]],
                                       link |-> articles["sched"][ai["sched"]].link])
    /\ UNCHANGED <<deliveryHist, runs_started, restarts>>

SchedPaceArticle == ArticleSleep("sched") /\ UNCHANGED <<deliveryHist, schedHist>>
SchedPaceChannel == ChannelSleep("sched") /\ UNCHANGED <<deliveryHist, schedHist>>
SchedFinish ==
    FinishRun("sched", "ok") /\ UNCHANGED <<deliveryHist, schedHist, unitVars>>

InitSched ==
    /\ now = TriggerTime - HourSeconds
    /\ InitConfig
    /\ InitDelivery
    /\ InitMention
    /\ call = NoCall

NextSched ==
    \/ AdvanceHour \/ Restart \/ SchedTick \/ SchedResolve \/ SchedSend
    \/ SchedPaceArticle \/ SchedPaceChannel \/ SchedFinish

SpecSched == InitSched /\ [][NextSched]_vars

(* C8: an article that a scheduled run has sent to a channel is not sent   *)
(* to that channel again by a later scheduled run.                         *)
C8_NoRedeliveryByLaterRun ==
    \A i \in DOMAIN delivered, j \in DOMAIN delivered :
        (i < j /\ delivered[i].run < delivered[j].run
               /\ delivered[i].channel = delivered[j].channel)
            => delivered[i].link # delivered[j].link

----------------------------------------------------------------------------
(* SpecMention: on_message for messages that mention the bot, and the      *)
(* handlers it awaits, handle_news_request and handle_general_mention.     *)

MentionCooldownSeconds == 30
MentionKeepSeconds     == 300     \* timedelta(minutes=5)

(* the instants at which the mention specifications look at the clock: half *)
(* a cooldown apart, from the start and from five minutes after it          *)
ClockStep == MentionCooldownSeconds \div 2

MentionInstants ==
    {TriggerTime + ClockStep * i : i \in 0..MaxShortSteps}
    \cup {TriggerTime + MentionKeepSeconds + ClockStep * i : i \in 0..MaxShortSteps}

MentionOutcomes == {"ok", "Forbidden", "NotFound", "HTTPException"}
PermissionOutcomes == {"embed", "no_embed", "error"}

(* InCooldown with the comparison of line 357 turned around *)
InCooldownReversed(rm, key, t) ==
    rm[key] # NoTime /\ t - rm[key] > MentionCooldownSeconds

(* lines 355-357: the key is in recent_mentions and less than 30 s old *)
InCooldown(rm, key, t) ==
    rm[key] # NoTime /\ t - rm[key] < MentionCooldownSeconds

(* CleanOldMentions that evicts nothing *)
CleanOldMentionsKeepsAll(rm, t) == rm

(* lines 362-363: drop the entries older than five minutes *)
CleanOldMentions(rm, t) ==
    [k \in DOMAIN rm |-> IF rm[k] # NoTime /\ rm[k] > t - MentionKeepSeconds
                         THEN rm[k] ELSE NoTime]

(* line 366 *)
RecordMention(rm, key, t) == [rm EXCEPT ![key] = t]

(* the state of the on-demand machine that an await of the handlers is in *)
StateOf(pcv) ==
    CASE pcv = "idle" -> "Idle"
      [] pcv = "refuse" -> "Refused"
      [] pcv \in {"load_reply", "load_send", "load_plain"} -> "Searching"
      [] pcv \in {"edit", "edit_fallback"} -> "NoResultsFound"
      [] pcv \in {"delete", "ok_reply", "ok_send", "ok_plain", "post", "post_sleep",
                  "post_plain"} -> "Posting"
      [] pcv \in {"err_reply", "err_send"} -> "Error"
      [] pcv \in {"gen_reply", "gen_send"} -> "General"

(* lines 412-432: after the placeholder is posted, fetch and branch *)
AfterPlaceholder(arts) == IF arts = <<>> THEN "edit" ELSE "delete"

(* lines 450-462: the next iteration of the article loop, or the return *)
NextArticlePc(arts, i) == IF i < Len(arts) THEN "post" ELSE "idle"

(* the await a handler reaches when the await it is suspended at ends with *)
(* outcome o; arts and i are its articles and its loop index               *)
NextHandlerPc(pcv, o, arts, i) ==
    CASE pcv = "refuse" -> IF o = "ok" THEN "idle" ELSE "err_reply"
      [] pcv = "load_reply" ->
            IF o = "ok" THEN AfterPlaceholder(arts)
            ELSE IF o = "Forbidden" THEN "load_send" ELSE "err_reply"
      [] pcv = "load_send" ->
            IF o = "ok" THEN AfterPlaceholder(arts)
            ELSE IF o = "Forbidden" THEN "load_plain" ELSE "err_reply"
      [] pcv = "load_plain" -> IF o = "ok" THEN AfterPlaceholder(arts) ELSE "err_reply"
      [] pcv = "edit" ->
            IF o = "ok" THEN "idle"
            ELSE IF o \in {"Forbidden", "NotFound"} THEN "edit_fallback" ELSE "err_reply"
      [] pcv = "edit_fallback" -> IF o = "ok" THEN "idle" ELSE "err_reply"
      [] pcv = "delete" ->
            IF o \in {"ok", "Forbidden", "NotFound"} THEN "ok_reply" ELSE "err_reply"
      [] pcv = "ok_reply" ->
            IF o = "ok" THEN "post"
            ELSE IF o = "Forbidden" THEN "ok_send" ELSE "err_reply"
      [] pcv = "ok_send" ->
            IF o = "ok" THEN "post"
            ELSE IF o = "Forbidden" THEN "ok_plain" ELSE "err_reply"
      [] pcv = "ok_plain" -> IF o = "ok" THEN "post" ELSE "err_reply"
      [] pcv = "post" ->
            IF o = "ok" THEN "post_sleep"
            ELSE IF o = "Forbidden" THEN "post_plain" ELSE NextArticlePc(arts, i)
      [] pcv = "post_plain" -> IF o = "ok" THEN "post_sleep" ELSE "err_reply"
      [] pcv = "err_reply" -> IF o = "Forbidden" THEN "err_send" ELSE "idle"
      [] pcv = "err_send" -> "idle"
      [] pcv = "gen_reply" -> IF o = "Forbidden" THEN "gen_send" ELSE "idle"
      [] pcv = "gen_send" -> "idle"

(* the exception of an await leaves the handler: lines 476-482 catch only  *)
(* discord.Forbidden                                                       *)
LeavesHandler(pcv, o) ==
    pcv \in {"err_reply", "err_send"} /\ o \notin {"ok", "Forbidden"}

(* the first await of the handler that on_message calls, lines 376-410 and *)
(* 509-535                                                                 *)
FirstHandlerPc(news, perm) ==
    IF news
    THEN CASE perm = "error" -> "err_reply"
           [] perm = "no_embed" -> "refuse"
           [] perm = "embed" -> "load_reply"
    ELSE IF perm = "error" THEN "idle" ELSE "gen_reply"

(* the states visited by a request; Idle again when the handler returns *)
Visit(path, pcv) ==
    IF pcv = "idle" THEN <<>>
    ELSE IF path # <<>> /\ path[Len(path)] = StateOf(pcv) THEN path
    ELSE Append(path, StateOf(pcv))

(* history: the key was processed less than 30 seconds before now *)
ProcessedWithin(key) ==
    processed_at[key] # NoTime /\ now - processed_at[key] < MentionCooldownSeconds

(* OnMessage where a suppressed repeat is recorded like a processed one *)
OnMessageRefreshes(key, news, perm, h) ==
    IF InCooldown(recent_mentions, key, now)
    THEN /\ last_event' = [key |-> key, within |-> ProcessedWithin(key),
                           outcome |-> "suppressed"]
         /\ recent_mentions' = RecordMention(recent_mentions, key, now)
         /\ UNCHANGED <<hpc, harticles, hai, hpath, hescaped, processed_at>>
    ELSE /\ hpc[h] = "idle"
         /\ recent_mentions' = RecordMention(CleanOldMentions(recent_mentions, now), key, now)
         /\ hpc' = [hpc EXCEPT ![h] = FirstHandlerPc(news, perm)]
         /\ harticles' = [harticles EXCEPT ![h] = <<>>]
         /\ hai' = [hai EXCEPT ![h] = 1]
         /\ hpath' = [hpath EXCEPT ![h] = Visit(<<>>, FirstHandlerPc(news, perm))]
         /\ hescaped' = [hescaped EXCEPT ![h] = FALSE]
         /\ processed_at' = [processed_at EXCEPT ![key] = now]
         /\ last_event' = [key |-> key, within |-> ProcessedWithin(key),
                           outcome |-> IF news THEN "news" ELSE "general"]

(* on_message, lines 344-379, for a message that mentions the bot *)
OnMessage(key, news, perm, h) ==
    IF InCooldown(recent_mentions, key, now)
    THEN /\ last_event' = [key |-> key, within |-> ProcessedWithin(key),
                           outcome |-> "suppressed"]
         /\ UNCHANGED <<recent_mentions, hpc, harticles, hai, hpath, hescaped,
                        processed_at>>
    ELSE /\ hpc[h] = "idle"
         /\ recent_mentions' = RecordMention(CleanOldMentions(recent_mentions, now), key, now)
         /\ hpc' = [hpc EXCEPT ![h] = FirstHandlerPc(news, perm)]
         /\ harticles' = [harticles EXCEPT ![h] = <<>>]
         /\ hai' = [hai EXCEPT ![h] = 1]
         /\ hpath' = [hpath EXCEPT ![h] = Visit(<<>>, FirstHandlerPc(news, perm))]
         /\ hescaped' = [hescaped EXCEPT ![h] = FALSE]
         /\ processed_at' = [processed_at EXCEPT ![key] = now]
         /\ last_event' = [key |-> key, within |-> ProcessedWithin(key),
                           outcome |-> IF news THEN "news" ELSE "general"]

(* an await of handle_news_request or handle_general_mention ends *)
HandlerAwait(h, o, vergeUp, cnetUp) ==
    /\ hpc[h] \notin {"idle", "post_sleep"}
    /\ LET arts == IF hpc[h] \in {"load_reply", "load_send", "load_plain"} /\ o = "ok"
                   THEN FetchLatestArticles(feeds, vergeUp, cnetUp, now,
                                            strict_tech_filter, 4)
                   ELSE harticles[h]
           next == NextHandlerPc(hpc[h], o, arts, hai[h])
       IN  /\ hpc' = [hpc EXCEPT ![h] = next]
           /\ harticles' = [harticles EXCEPT ![h] = IF next = "idle" THEN <<>> ELSE arts]
           /\ hai' = [hai EXCEPT ![h] =
                        IF next = "idle" THEN 1
                        ELSE IF hpc[h] = "post" /\ next = "post" THEN @ + 1 ELSE @]
           /\ hpath' = [hpath EXCEPT ![h] = Visit(@, next)]
           /\ hescaped' = [hescaped EXCEPT ![h] = @ \/ LeavesHandler(hpc[h], o)]
    /\ UNCHANGED <<recent_mentions, processed_at, last_event>>

(* lines 454 and 459: asyncio.sleep(1) after an article *)
HandlerSleep(h) ==
    /\ hpc[h] = "post_sleep"
    /\ LET next == NextArticlePc(harticles[h], hai[h]) IN
       /\ hpc' = [hpc EXCEPT ![h] = next]
       /\ hai' = [hai EXCEPT ![h] = IF next = "idle" THEN 1 ELSE @ + 1]
       /\ harticles' = [harticles EXCEPT ![h] = IF next = "idle" THEN <<>> ELSE @]
    /\ hpath' = [hpath EXCEPT ![h] = Visit(@, NextArticlePc(harticles[h], hai[h]))]
    /\ UNCHANGED <<hescaped, recent_mentions, processed_at, last_event>>

mentionFrame == <<configVars, unitVars, last_check, tick_due, deliveryVars, deliveryHist, schedHist>>

MentionClock ==
    /\ \E t \in MentionInstants : t > now /\ now' = t
    /\ UNCHANGED <<mentionFrame, mentionVars>>

Mention ==
    \E key \in Keys, news \in BOOLEAN, perm \in PermissionOutcomes, h \in Handlers :
        OnMessage(key, news, perm, h) /\ UNCHANGED <<now, mentionFrame>>

MentionAwait ==
    \E h \in Handlers, o \in MentionOutcomes, vergeUp \in BOOLEAN, cnetUp \in BOOLEAN :
        HandlerAwait(h, o, vergeUp, cnetUp) /\ UNCHANGED <<now, mentionFrame>>

MentionSleep == \E h \in Handlers : HandlerSleep(h) /\ UNCHANGED <<now, mentionFrame>>

NextMention == MentionClock \/ Mention \/ MentionAwait \/ MentionSleep

(* one configuration: both feeds full, the mentions arrive in one channel *)
InitMentionSpec ==
    /\ now = TriggerTime
    /\ feeds = [verge |-> [i \in 1..MaxVerge |-> VergeEntry(i)],
                cnet |-> [i \in 1..MaxCnet |-> CnetEntry(i)]]
    /\ channel_ids = <<MentionChannel>>
    /\ strict_tech_filter = TRUE
    /\ last_check = AbsentFile
    /\ tick_due = TRUE
    /\ InitDelivery
    /\ InitMention
    /\ call = NoCall

SpecMention == InitMentionSpec /\ [][NextMention]_vars

(* SpecDebounce: the same on_message and handlers where every await of a   *)
(* handler succeeds, so that several handlers can be followed at once.     *)
DebounceAwait ==
    \E h \in Handlers :
        HandlerAwait(h, "ok", TRUE, TRUE) /\ UNCHANGED <<now, mentionFrame>>

NextDebounce == MentionClock \/ Mention \/ DebounceAwait \/ MentionSleep

SpecDebounce == InitMentionSpec /\ [][NextDebounce]_vars

(* C9: a mention event whose key was processed less than 30 seconds        *)
(* before it is suppressed: on_message starts no handler for it and sends  *)
(* no response.                                                            *)
C9_DuplicateWithinCooldownIgnored ==
    last_event.within => last_event.outcome = "suppressed"

C9_Witness ==
    /\ last_event.outcome = "suppressed"
    /\ now - processed_at[last_event.key] = ClockStep
    /\ \E k \in Keys : processed_at[k] > processed_at[last_event.key]
    /\ \E h \in Handlers : hpc[h] = "post"

(* C10: a mention-triggered news request moves along Idle -> Searching ->  *)
(* one of Posting, NoResultsFound, Error -> Idle, and no exception leaves  *)
(* the handler.  The refusal for a missing embed permission, sent before   *)
(* the placeholder, is not counted as leaving Idle.                        *)
OnDemandPaths ==
    {<<>>, <<"Refused">>, <<"General">>, <<"Searching">>, <<"Searching", "Posting">>,
     <<"Searching", "NoResultsFound">>, <<"Searching", "Error">>}

C10_OnDemandStateMachine ==
    \A h \in Handlers :
        /\ hpath[h] \in OnDemandPaths
        /\ ~hescaped[h]

----------------------------------------------------------------------------
(* SpecAggregate: fetch_latest_articles and _fetch_from_source called on   *)
(* feeds of every shape: entries inside the time window, with equal and    *)
(* different publication times, the same link served more than once.       *)

(* what feedparser exposes for the i-th entry of a feed *)
FeedEntry(source, i, item, published, parsed, tech) ==
    [link |-> <<"item", item>>, title |-> <<"title", source, i>>,
     description |-> <<"description", source, i>>,
     published |-> published, parsed |-> parsed, tech |-> tech]

RecentTimes == {TriggerTime - 1 * HourSeconds, TriggerTime - 2 * HourSeconds}

RecentFeeds(source) ==
    UNION { [1..n -> (1..MaxItems) \X RecentTimes] : n \in 0..MaxFeedLen }

FeedOf(source, kinds) ==
    [i \in DOMAIN kinds |-> FeedEntry(source, i, kinds[i][1], kinds[i][2], TRUE, TRUE)]

AggregateFeeds ==
    { [verge |-> FeedOf("verge", v), cnet |-> FeedOf("cnet", c)] :
        v \in RecentFeeds("verge"), c \in RecentFeeds("cnet") }

Sources == {"The Verge", "CNET"}
EntriesOf(source_name) == IF source_name = "The Verge" THEN feeds.verge ELSE feeds.cnet

(* await self.news_service.fetch_latest_articles(max_articles) *)
CallFetchLatestArticles(vergeUp, cnetUp, max_articles) ==
    /\ call' = [fn |-> "fetch_latest_articles",
                vergeUp |-> vergeUp, cnetUp |-> cnetUp, max_articles |-> max_articles,
                verge_articles |-> FetchFromSource(feeds.verge, vergeUp, "The Verge", now,
                                                   strict_tech_filter),
                cnet_articles |-> FetchFromSource(feeds.cnet, cnetUp, "CNET", now,
                                                  strict_tech_filter),
                raised |-> FetchLatestArticlesRaises(vergeUp, cnetUp),
                result |-> FetchLatestArticles(feeds, vergeUp, cnetUp, now,
                                               strict_tech_filter, max_articles)]
    /\ UNCHANGED <<now, configVars, last_check, tick_due, deliveryVars, deliveryHist,
                   schedHist, mentionVars>>

(* await self._fetch_from_source(rss_url, source_name, 2) *)
CallFetchFromSource(source_name, reachable) ==
    /\ call' = [fn |-> "_fetch_from_source", source_name |-> source_name,
                reachable |-> reachable,
                raised |-> FetchFromSourceRaises(reachable),
                result |-> FetchFromSource(EntriesOf(source_name), reachable, source_name,
                                           now, strict_tech_filter)]
    /\ UNCHANGED <<now, configVars, last_check, tick_due, deliveryVars, deliveryHist,
                   schedHist, mentionVars>>

InitAggregate ==
    /\ now = TriggerTime
    /\ feeds \in AggregateFeeds
    /\ channel_ids = <<MentionChannel>>
    /\ strict_tech_filter = TRUE
    /\ last_check = AbsentFile
    /\ tick_due = FALSE
    /\ InitDelivery
    /\ InitMention
    /\ call = NoCall

AggregateFetch ==
    \E vergeUp \in BOOLEAN, cnetUp \in BOOLEAN, max_articles \in 1..MaxCap :
        CallFetchLatestArticles(vergeUp, cnetUp, max_articles)

AggregateSource ==
    \E source_name \in Sources, reachable \in BOOLEAN :
        CallFetchFromSource(source_name, reachable)

NextAggregate == AggregateFetch \/ AggregateSource

SpecAggregate == InitAggregate /\ [][NextAggregate]_vars

(* the place of an article in all_articles before the sort: The Verge's    *)
(* articles in feed order, then CNET's in feed order                       *)
PlaceBeforeSort(a) == (IF a.author = "The Verge" THEN 0 ELSE ScanLimit) + a.title[3]

IsAggregate == call.fn = "fetch_latest_articles"

(* C11: the result of fetch_latest_articles holds the articles of both     *)
(* adapters sorted non-increasing by published; articles of equal time     *)
(* keep the order The Verge before CNET and, within a source, feed order.  *)
C11_SortedNewestFirstAndStable ==
    IsAggregate =>
        /\ Len(call.result) = Len(call.verge_articles) + Len(call.cnet_articles)
        /\ \A i, j \in DOMAIN call.result :
              i < j =>
                /\ call.result[i].published >= call.result[j].published
                /\ call.result[i].published = call.result[j].published
                     => PlaceBeforeSort(call.result[i]) < PlaceBeforeSort(call.result[j])

C11_Witness ==
    /\ IsAggregate
    /\ Len(call.result) = 2 * MaxPerSource
    /\ \E i, j \in DOMAIN call.result :
          /\ i < j
          /\ call.result[i].published = call.result[j].published
          /\ call.result[i].author # call.result[j].author
    /\ \E i, j \in DOMAIN call.result :
          /\ i < j
          /\ call.result[i].published = call.result[j].published
          /\ call.result[i].author = call.result[j].author
    /\ call.result[1].author = "CNET"

(* the first n elements of a sequence *)
Take(s, n) == SubSeq(s, 1, Min(n, Len(s)))

(* C12: fetch_latest_articles(max_articles) returns at most max_articles   *)
(* articles, the most recent ones of the merged adapters' outputs.         *)
C12_AtMostCapMostRecent ==
    IsAggregate =>
        /\ Len(call.result) <= call.max_articles
        /\ call.result = Take(SortByPublished(call.verge_articles \o call.cnet_articles),
                              call.max_articles)

(* C13: the articles that one fetch hands to the pipeline never hold the   *)
(* same link twice.                                                        *)
C13_NoLinkTwice ==
    IsAggregate =>
        \A i, j \in DOMAIN call.result :
            i # j => call.result[i].link # call.result[j].link

(* the articles of a list as a set *)
Range(s) == {s[i] : i \in DOMAIN s}

(* C14: _fetch_from_source never raises and returns [] when the fetch of   *)
(* its feed fails; fetch_latest_articles then still returns the articles   *)
(* of the other source.                                                    *)
C14_DeadSourceIsEmptyNotFatal ==
    /\ call.fn = "_fetch_from_source" =>
          /\ ~call.raised
          /\ ~call.reachable => call.result = <<>>
    /\ IsAggregate =>
          /\ ~call.raised
          /\ ~call.vergeUp => call.verge_articles = <<>>
          /\ ~call.cnetUp => call.cnet_articles = <<>>
          /\ Len(call.result) = Len(call.verge_articles) + Len(call.cnet_articles)
          /\ Range(call.result) = Range(call.verge_articles) \cup Range(call.cnet_articles)

C14_Witness ==
    /\ IsAggregate
    /\ ~call.vergeUp /\ call.cnetUp
    /\ Len(feeds.verge) = MaxFeedLen
    /\ Len(call.result) = MaxPerSource
    /\ \A i \in DOMAIN call.result : call.result[i].author = "CNET"

----------------------------------------------------------------------------
(* SpecAdapter: _fetch_from_source called on one feed whose entries lie    *)
(* before, at and after the cutoff, pass or fail is_tech_news, or cannot   *)
(* be processed at all, in every order; the strict filter on and off.      *)

CutoffTime == TriggerTime - LookbackHours * HourSeconds
WindowTimes == {CutoffTime - HourSeconds, CutoffTime, TriggerTime - HourSeconds}

(* <<published, parsed, tech>> of an entry *)
AdapterKinds ==
    (WindowTimes \X {TRUE} \X BOOLEAN) \cup {<<TriggerTime - HourSeconds, FALSE, TRUE>>}

AdapterFeeds ==
    { [i \in DOMAIN kinds |->
          FeedEntry("verge", i, i, kinds[i][1], kinds[i][2], kinds[i][3])] :
        kinds \in UNION { [1..n -> AdapterKinds] : n \in 0..MaxEntries } }

InitAdapter ==
    /\ now = TriggerTime
    /\ feeds \in { [verge |-> f, cnet |-> <<>>] : f \in AdapterFeeds }
    /\ channel_ids = <<MentionChannel>>
    /\ strict_tech_filter \in BOOLEAN
    /\ last_check = AbsentFile
    /\ tick_due = FALSE
    /\ InitDelivery
    /\ InitMention
    /\ call = NoCall

AdapterSource == \E reachable \in BOOLEAN : CallFetchFromSource("The Verge", reachable)

NextAdapter == AdapterSource

SpecAdapter == InitAdapter /\ [][NextAdapter]_vars

(* the entry can be processed, is newer than the cutoff and passes the     *)
(* classifier, the classifier being consulted with the strict filter only  *)
Qualifies(entry) ==
    /\ entry.parsed
    /\ entry.published > now - LookbackHours * HourSeconds
    /\ strict_tech_filter => entry.tech

(* the indices of the scanned entries that qualify, in feed order *)
QualifyingIndices(entries) ==
    SelectSeq([i \in 1..Min(Len(entries), ScanLimit) |-> i],
              LAMBDA i : Qualifies(entries[i]))

IsAdapter == call.fn = "_fetch_from_source"

(* C15: the adapter returns exactly the first MaxPerSource scanned entries *)
(* that are newer than the cutoff and pass the classifier, in feed order;  *)
(* an entry outside the window is never returned and never ends the scan.  *)
C15_FirstQualifyingEntriesInFeedOrder ==
    (IsAdapter /\ call.reachable) =>
        LET entries == EntriesOf(call.source_name)
            expect  == Take(QualifyingIndices(entries), MaxPerSource)
        IN  /\ Len(call.result) <= MaxPerSource
            /\ Len(call.result) = Len(expect)
            /\ \A k \in DOMAIN call.result :
                  /\ call.result[k].title = entries[expect[k]].title
                  /\ call.result[k].link = entries[expect[k]].link
                  /\ call.result[k].published = entries[expect[k]].published
                  /\ call.result[k].published > now - LookbackHours * HourSeconds

C15_Witness ==
    /\ IsAdapter /\ call.reachable /\ strict_tech_filter
    /\ Len(feeds.verge) = MaxEntries
    /\ feeds.verge[1].published < CutoffTime
    /\ feeds.verge[2].published = CutoffTime
    /\ Len(call.result) = MaxPerSource
    /\ call.result[1].title = feeds.verge[3].title
    /\ call.result[2].title = feeds.verge[MaxEntries].title

----------------------------------------------------------------------------
(* SpecWatermark: last_check.json, found in any condition at the start,    *)
(* read by get_last_check_time and !status, written by the scheduled run   *)
(* in the two halves of save_last_check_time, with the process killed and  *)
(* restarted at any point.  The run's channel lookups and sends succeed.   *)

StartFiles ==
    {AbsentFile, EmptyFile, CorruptFile, NoKeyFile, BadTimeFile,
     ValidFile(TriggerTime - DaySeconds)}

(* self.news_service.get_last_check_time() *)
CallGetLastCheckTime ==
    /\ call' = [fn |-> "get_last_check_time", file |-> last_check,
                raised |-> GetLastCheckTimeRaises(last_check),
                result |-> GetLastCheckTime(last_check)]
    /\ UNCHANGED <<now, configVars, last_check, tick_due, deliveryVars, deliveryHist,
                   schedHist, mentionVars>>

(* BotStatus that stores the time of the command in last_check.json *)
BotStatusSavesTime ==
    /\ call' = [fn |-> "bot_status", file |-> last_check,
                raised |-> GetLastCheckTimeRaises(last_check),
                never |-> GetLastCheckTime(last_check) = NoTime,
                last_check_time |-> GetLastCheckTime(last_check)]
    /\ last_check' = SaveLastCheckTime(last_check, now, "ok")
    /\ UNCHANGED <<now, configVars, tick_due, deliveryVars, deliveryHist,
                   schedHist, mentionVars>>

(* the !status command, lines 557-579: last_check_str is "never" when the  *)
(* read returned None                                                      *)
BotStatus ==
    /\ call' = [fn |-> "bot_status", file |-> last_check,
                raised |-> GetLastCheckTimeRaises(last_check),
                never |-> GetLastCheckTime(last_check) = NoTime,
                last_check_time |-> GetLastCheckTime(last_check)]
    /\ UNCHANGED <<now, configVars, last_check, tick_due, deliveryVars, deliveryHist,
                   schedHist, mentionVars>>

(* line 955 with no successful post: the run returns without saving *)
SaveSkipped(p) ==
    /\ pc[p] = "save" /\ successful_posts[p] = 0
    /\ pc' = [pc EXCEPT ![p] = ReturnTo(p)]
    /\ UNCHANGED <<now, configVars, unitVars, last_check, tick_due, articles, ti, ai,
                   successful_posts, embed_links, force, deliveryHist, schedHist,
                   mentionVars>>

(* line 285: the file is opened for writing *)
SaveOpen(p, io) ==
    /\ pc[p] = "save" /\ successful_posts[p] > 0
    /\ last_check' = OpenForWrite(last_check, io)
    /\ pc' = [pc EXCEPT ![p] = IF io = "open_fail" THEN ReturnTo(p) ELSE "save_close"]
    /\ call' = [fn |-> "save_last_check_time", before |-> last_check, new |-> now,
                stage |-> IF io = "open_fail" THEN "failed" ELSE "opened"]
    /\ UNCHANGED <<now, configVars, tick_due, articles, ti, ai, successful_posts,
                   embed_links, force, deliveryHist, schedHist, mentionVars>>

(* lines 286-287: json.dump and the close *)
SaveClose(p, io) ==
    /\ pc[p] = "save_close"
    /\ last_check' = DumpAndClose(call.new, io)
    /\ pc' = [pc EXCEPT ![p] = ReturnTo(p)]
    /\ call' = [call EXCEPT !.stage = IF io = "write_fail" THEN "failed" ELSE "closed"]
    /\ UNCHANGED <<now, configVars, tick_due, articles, ti, ai, successful_posts,
                   embed_links, force, deliveryHist, schedHist, mentionVars>>

(* the process is killed between the open and the close, and restarted *)
SaveCrash(p) ==
    /\ pc[p] = "save_close"
    /\ restarts < MaxRestarts
    /\ restarts' = restarts + 1
    /\ call' = [fn |-> "crash_in_save", before |-> call.before, new |-> call.new]
    /\ pc' = [q \in Runs |-> "idle"]
    /\ articles' = [q \in Runs |-> <<>>]
    /\ ti' = [q \in Runs |-> 1]
    /\ ai' = [q \in Runs |-> 1]
    /\ successful_posts' = [q \in Runs |-> 0]
    /\ embed_links' = [q \in Runs |-> FALSE]
    /\ force' = [q \in Runs |-> FALSE]
    /\ tick_due' = TRUE
    /\ UNCHANGED <<now, configVars, last_check, deliveryHist, delivered, runs_started,
                   mentionVars>>

InitWatermark ==
    /\ now = TriggerTime - HourSeconds
    /\ feeds = [verge |-> [i \in 1..MaxVerge |-> VergeEntry(i)],
                cnet |-> [i \in 1..MaxCnet |-> CnetEntry(i)]]
    /\ channel_ids = <<MentionChannel, MentionChannel + 1>>
    /\ strict_tech_filter = TRUE
    /\ last_check \in StartFiles
    /\ tick_due = TRUE
    /\ InitDelivery
    /\ InitMention
    /\ call = NoCall

(* save_last_check_time has no await: nothing else runs inside it *)
InsideSave == \E q \in Runs : pc[q] = "save_close"

WatermarkRead == ~InsideSave /\ CallGetLastCheckTime
WatermarkStatus == ~InsideSave /\ BotStatus
WatermarkTick == NewsCheckTask(TRUE, TRUE) /\ UNCHANGED <<deliveryHist, schedHist>>
WatermarkSend == SendArticle("sched", "ok") /\ UNCHANGED <<deliveryHist, schedHist>>
WatermarkResolve ==
    \E r \in ResolveOutcomes :
        ResolveChannel("sched", r) /\ UNCHANGED <<deliveryHist, schedHist>>
WatermarkSaveSkipped == SaveSkipped("sched")
WatermarkSaveOpen == \E io \in {"ok", "open_fail"} : SaveOpen("sched", io)
WatermarkSaveClose == \E io \in {"ok", "write_fail"} : SaveClose("sched", io)
WatermarkCrash == SaveCrash("sched")

NextWatermark ==
    \/ AdvanceHour \/ Restart \/ WatermarkTick \/ WatermarkResolve \/ WatermarkSend
    \/ SchedPaceArticle \/ SchedPaceChannel
    \/ WatermarkSaveSkipped \/ WatermarkSaveOpen \/ WatermarkSaveClose \/ WatermarkCrash
    \/ WatermarkRead \/ WatermarkStatus

SpecWatermark == InitWatermark /\ [][NextWatermark]_vars

(* C16: get_last_check_time never raises; a missing file, an empty or     *)
(* broken file, a file without last_check or with an unparseable time all  *)
(* give None, a valid file gives its time.                                 *)
C16_ReadNeverRaises ==
    call.fn = "get_last_check_time" =>
        /\ ~call.raised
        /\ call.file.state # "valid" => call.result = NoTime
        /\ call.file.state = "valid" => call.result = call.file.time

C16_Witness ==
    /\ call.fn = "get_last_check_time"
    /\ call.file = NoKeyFile
    /\ call.result = NoTime
    /\ pc["sched"] = "send"

(* C17: after a crash inside save_last_check_time the file holds the       *)
(* previous content or the new one, and a read gives one of the two times. *)
C17_CrashLeavesOldOrNew ==
    call.fn = "crash_in_save" =>
        /\ last_check \in {call.before, ValidFile(call.new)}
        /\ GetLastCheckTime(last_check) \in {GetLastCheckTime(call.before), call.new}

HourOf(t) == (t \div HourSeconds) % 24

(* C18: with last_check.json absent the read gives None, !status reports   *)
(* "never", and the tick of the trigger hour starts a run.                 *)
C18_AbsentWatermarkFirstRun ==
    /\ [](/\ (call.fn = "get_last_check_time" /\ call.file = AbsentFile)
                => (call.result = NoTime /\ ~call.raised)
          /\ (call.fn = "bot_status" /\ call.file = AbsentFile)
                => (call.never /\ ~call.raised))
    /\ [][(/\ tick_due /\ ~tick_due'
           /\ last_check = AbsentFile
           /\ HourOf(now) = scheduled_hour)
          => (pc["sched"] = "idle" /\ pc'["sched"] = "resolve"
              /\ articles'["sched"] # <<>>)]_vars

C18_Witness ==
    /\ last_check = AbsentFile
    /\ HourOf(now) = scheduled_hour
    /\ pc["sched"] = "send"
    /\ call.fn = "bot_status" /\ call.file = AbsentFile /\ call.never

----------------------------------------------------------------------------
(* SpecTrigger: the hourly ticks of news_check_task over more than a day,  *)
(* with !news runs by a privileged member and restarts in between; the     *)
(* lookups and sends of the runs succeed.  The scheduled run that saves    *)
(* the watermark notes the time, and the time of the scheduled save        *)
(* before it.                                                              *)

NoteScheduledSave(p) ==
    call' = IF p = "sched" /\ successful_posts[p] > 0
            THEN [fn |-> "scheduled_save", at |-> now,
                  previous_at |-> IF call.fn = "scheduled_save" THEN call.at ELSE NoTime]
            ELSE call

TriggerTick == NewsCheckTask(TRUE, TRUE) /\ UNCHANGED <<deliveryHist, schedHist>>
TriggerCommand == FetchNewsCommand(TRUE) /\ UNCHANGED <<deliveryHist, schedHist, unitVars>>
TriggerCommandRun ==
    FetchNewsRun("ok", TRUE, TRUE) /\ UNCHANGED <<deliveryHist, schedHist, unitVars>>
TriggerCommandDone == FetchNewsDone("ok") /\ UNCHANGED <<deliveryHist, schedHist, unitVars>>
TriggerResolve ==
    \E p \in Runs : ResolveChannel(p, "embed") /\ UNCHANGED <<deliveryHist, schedHist>>
TriggerSend ==
    \E p \in Runs : SendArticle(p, "ok") /\ UNCHANGED <<deliveryHist, schedHist>>
TriggerPaceArticle ==
    \E p \in Runs : ArticleSleep(p) /\ UNCHANGED <<deliveryHist, schedHist>>
TriggerFinish ==
    \E p \in Runs :
        FinishRun(p, "ok") /\ NoteScheduledSave(p) /\ UNCHANGED <<deliveryHist, schedHist>>

InitTrigger ==
    /\ now = TriggerTime - HourSeconds
    /\ feeds = [verge |-> [i \in 1..MaxVerge |-> VergeEntry(i)],
                cnet |-> [i \in 1..MaxCnet |-> CnetEntry(i)]]
    /\ channel_ids = <<MentionChannel>>
    /\ strict_tech_filter = TRUE
    /\ last_check = AbsentFile
    /\ tick_due = TRUE
    /\ InitDelivery
    /\ InitMention
    /\ call = NoCall

NextTrigger ==
    \/ AdvanceHour \/ Restart \/ TriggerTick
    \/ TriggerCommand \/ TriggerCommandRun \/ TriggerCommandDone
    \/ TriggerResolve \/ TriggerSend \/ TriggerPaceArticle \/ TriggerFinish

SpecTrigger == InitTrigger /\ [][NextTrigger]_vars

(* the daily period a time lies in: periods begin at the trigger hour *)
PeriodOf(t) == (t - scheduled_hour * HourSeconds) \div DaySeconds

(* the watermark shows a delivery within the last full period *)
DeliveredWithinPeriod ==
    GetLastCheckTime(last_check) # NoTime
        /\ now - GetLastCheckTime(last_check) < DaySeconds

(* C19: a tick starts a run exactly when the clock is in the trigger hour  *)
(* and the watermark shows no delivery within the last daily period; at    *)
(* most one scheduled run per daily period advances the watermark.         *)
C19_OneScheduledRunPerPeriod ==
    /\ []((call.fn = "scheduled_save" /\ call.previous_at # NoTime)
            => PeriodOf(call.at) # PeriodOf(call.previous_at))
    /\ [][(tick_due /\ ~tick_due')
          => (pc'["sched"] = "resolve"
                <=> (HourOf(now) = scheduled_hour /\ ~DeliveredWithinPeriod))]_vars

----------------------------------------------------------------------------
(* The relevance classifier is_tech_news.  A Python str is the sequence of *)
(* its characters, so that `in` between two strings is the search for a    *)
(* substring and str.lower() acts on every character.                      *)

UpperCase == <<"A", "B", "C", "D", "E", "F", "G", "H", "I", "J", "K", "L", "M", "N", "O", "P", "Q", "R", "S", "T", "U", "V", "W", "X", "Y", "Z">>
LowerCase == <<"a", "b", "c", "d", "e", "f", "g", "h", "i", "j", "k", "l", "m", "n", "o", "p", "q", "r", "s", "t", "u", "v", "w", "x", "y", "z">>

(* the place of a character in UpperCase, 0 if it is not an upper-case letter *)
UpperIndex(c) ==
    IF \E k \in DOMAIN UpperCase : UpperCase[k] = c
    THEN CHOOSE k \in DOMAIN UpperCase : UpperCase[k] = c
    ELSE 0

(* str.lower() *)
Lower(s) == [i \in DOMAIN s |-> IF UpperIndex(s[i]) = 0 THEN s[i]
                                ELSE LowerCase[UpperIndex(s[i])]]

(* `sub in s` for two strings *)
Contains(s, sub) ==
    \E k \in 0..(Len(s) - Len(sub)) :
        \A i \in 1..Len(sub) : s[k + i] = sub[i]

(* `x in list` *)
InList(x, list) == \E i \in DOMAIN list : list[i] = x

(* the lists of lines 114, 120-124, 134, 150-154 and 162-177 *)
core_tech_categories ==
    {<<"t", "e", "c", "h">>,
     <<"a", "i">>,
     <<"a", "p", "p", "l", "e">>,
     <<"g", "o", "o", "g", "l", "e">>,
     <<"m", "i", "c", "r", "o", "s", "o", "f", "t">>,
     <<"m", "e", "t", "a">>,
     <<"i", "n", "t", "e", "l">>,
     <<"n", "v", "i", "d", "i", "a">>,
     <<"a", "m", "d">>,
     <<"s", "a", "m", "s", "u", "n", "g">>,
     <<"h", "a", "r", "d", "w", "a", "r", "e">>,
     <<"s", "o", "f", "t", "w", "a", "r", "e">>,
     <<"g", "a", "d", "g", "e", "t", "s">>}

strict_exclude_categories ==
    {<<"e", "n", "t", "e", "r", "t", "a", "i", "n", "m", "e", "n", "t">>,
     <<"f", "i", "l", "m">>,
     <<"t", "v", " ", "s", "h", "o", "w", "s">>,
     <<"s", "t", "r", "e", "a", "m", "i", "n", "g">>,
     <<"g", "a", "m", "e", "s", " ", "r", "e", "v", "i", "e", "w">>,
     <<"s", "p", "o", "r", "t", "s">>,
     <<"h", "e", "a", "l", "t", "h">>,
     <<"m", "e", "d", "i", "c", "a", "l">>,
     <<"c", "l", "i", "m", "a", "t", "e">>,
     <<"e", "n", "v", "i", "r", "o", "n", "m", "e", "n", "t">>,
     <<"c", "u", "l", "t", "u", "r", "e">>,
     <<"f", "o", "o", "d">>,
     <<"t", "r", "a", "v", "e", "l">>,
     <<"l", "i", "f", "e", "s", "t", "y", "l", "e">>,
     <<"s", "p", "e", "e", "c", "h">>}

political_categories ==
    {<<"p", "o", "l", "i", "t", "i", "c", "s">>,
     <<"p", "o", "l", "i", "c", "y">>}

tech_companies ==
    {<<"a", "p", "p", "l", "e">>,
     <<"g", "o", "o", "g", "l", "e">>,
     <<"m", "i", "c", "r", "o", "s", "o", "f", "t">>,
     <<"m", "e", "t", "a">>,
     <<"i", "n", "t", "e", "l">>,
     <<"n", "v", "i", "d", "i", "a">>,
     <<"a", "m", "d">>,
     <<"o", "p", "e", "n", "a", "i">>,
     <<"t", "e", "s", "l", "a">>,
     <<"a", "m", "a", "z", "o", "n">>}

exclude_keywords ==
    {<<"m", "o", "v", "i", "e">>,
     <<"f", "i", "l", "m">>,
     <<"t", "v", " ", "s", "h", "o", "w">>,
     <<"c", "e", "l", "e", "b", "r", "i", "t", "y">>,
     <<"e", "n", "t", "e", "r", "t", "a", "i", "n", "m", "e", "n", "t", " ", "i", "n", "d", "u", "s", "t", "r", "y">>,
     <<"s", "p", "o", "r", "t", "s">>,
     <<"f", "o", "o", "t", "b", "a", "l", "l">>,
     <<"b", "a", "s", "k", "e", "t", "b", "a", "l", "l">>,
     <<"o", "l", "y", "m", "p", "i", "c", "s">>,
     <<"g", "a", "m", "e", " ", "r", "e", "v", "i", "e", "w">>,
     <<"c", "l", "i", "m", "a", "t", "e", " ", "c", "h", "a", "n", "g", "e">>,
     <<"g", "l", "o", "b", "a", "l", " ", "w", "a", "r", "m", "i", "n", "g">>,
     <<"h", "e", "a", "l", "t", "h", " ", "c", "r", "i", "s", "i", "s">>}

core_tech_keywords ==
    {<<"a", "p", "p", "l", "e">>,
     <<"g", "o", "o", "g", "l", "e">>,
     <<"m", "i", "c", "r", "o", "s", "o", "f", "t">>,
     <<"m", "e", "t", "a">>,
     <<"a", "m", "a", "z", "o", "n">>,
     <<"t", "e", "s", "l", "a">>,
     <<"n", "v", "i", "d", "i", "a">>,
     <<"i", "n", "t", "e", "l">>,
     <<"a", "m", "d">>,
     <<"o", "p", "e", "n", "a", "i">>,
     <<"a", "n", "t", "h", "r", "o", "p", "i", "c">>,
     <<"s", "a", "m", "s", "u", "n", "g">>,
     <<"q", "u", "a", "l", "c", "o", "m", "m">>,
     <<"a", "r", "t", "i", "f", "i", "c", "i", "a", "l", " ", "i", "n", "t", "e", "l", "l", "i", "g", "e", "n", "c", "e">>,
     <<"m", "a", "c", "h", "i", "n", "e", " ", "l", "e", "a", "r", "n", "i", "n", "g">>,
     <<"b", "l", "o", "c", "k", "c", "h", "a", "i", "n">>,
     <<"c", "r", "y", "p", "t", "o", "c", "u", "r", "r", "e", "n", "c", "y">>,
     <<"q", "u", "a", "n", "t", "u", "m", " ", "c", "o", "m", "p", "u", "t", "i", "n", "g">>,
     <<"r", "o", "b", "o", "t", "i", "c", "s">>,
     <<"a", "u", "t", "o", "m", "a", "t", "i", "o", "n">>,
     <<"c", "y", "b", "e", "r", "s", "e", "c", "u", "r", "i", "t", "y">>,
     <<"s", "m", "a", "r", "t", "p", "h", "o", "n", "e">>,
     <<"i", "p", "h", "o", "n", "e">>,
     <<"a", "n", "d", "r", "o", "i", "d">>,
     <<"l", "a", "p", "t", "o", "p">>,
     <<"t", "a", "b", "l", "e", "t">>,
     <<"p", "r", "o", "c", "e", "s", "s", "o", "r">>,
     <<"c", "h", "i", "p">>,
     <<"s", "e", "m", "i", "c", "o", "n", "d", "u", "c", "t", "o", "r">>,
     <<"c", "p", "u">>,
     <<"g", "p", "u">>,
     <<"s", "m", "a", "r", "t", "w", "a", "t", "c", "h">>,
     <<"d", "r", "o", "n", "e">>,
     <<"s", "o", "f", "t", "w", "a", "r", "e", " ", "d", "e", "v", "e", "l", "o", "p", "m", "e", "n", "t">>,
     <<"a", "p", "p", " ", "s", "t", "o", "r", "e">>,
     <<"o", "p", "e", "r", "a", "t", "i", "n", "g", " ", "s", "y", "s", "t", "e", "m">>,
     <<"c", "l", "o", "u", "d", " ", "c", "o", "m", "p", "u", "t", "i", "n", "g">>,
     <<"a", "p", "i">>}

Gaming == <<"g", "a", "m", "i", "n", "g">>
GamesReview == <<"g", "a", "m", "e", "s", " ", "r", "e", "v", "i", "e", "w">>
Space == <<" ">>

(* the keyword tier returning tech_score >= 0 *)
KeywordTierScoreFromZero(title, description) ==
    LET content == Lower(title \o Space \o description)
    IN  IF \E keyword \in exclude_keywords : Contains(content, keyword) THEN FALSE
        ELSE TRUE

(* the keyword tier counting the tech keywords before the exclusion keywords *)
KeywordTierTechFirst(title, description) ==
    LET content == Lower(title \o Space \o description)
    IN  IF \E keyword \in core_tech_keywords : Contains(content, keyword) THEN TRUE
        ELSE FALSE

(* lines 147-186: the keyword tier on the lower-cased title and description *)
KeywordTier(title, description) ==
    LET content == Lower(title \o Space \o description)
    IN  IF \E keyword \in exclude_keywords : Contains(content, keyword) THEN FALSE
        ELSE \E keyword \in core_tech_keywords : Contains(content, keyword)

(* is_tech_news where a core tech category keeps an excluded category from *)
(* deciding                                                                *)
IsTechNewsCoreTechFirst(title, description, categories) ==
    LET category_names == [i \in DOMAIN categories |-> Lower(categories[i])]
        has_core_tech == \E cat \in core_tech_categories : InList(cat, category_names)
        excluded == \E exclude_cat \in strict_exclude_categories :
                        \E i \in DOMAIN category_names :
                            Contains(category_names[i], exclude_cat)
    IN  IF categories # <<>> /\ excluded /\ ~has_core_tech THEN FALSE
        ELSE IF categories # <<>> /\ has_core_tech THEN TRUE
        ELSE KeywordTier(title, description)

(* is_tech_news where a political category always excludes the article *)
IsTechNewsPoliticsExcluded(title, description, categories) ==
    LET category_names == [i \in DOMAIN categories |-> Lower(categories[i])]
        has_core_tech == \E cat \in core_tech_categories : InList(cat, category_names)
        excluded == \E exclude_cat \in strict_exclude_categories :
                        \E i \in DOMAIN category_names :
                            Contains(category_names[i], exclude_cat)
        political == \E pol_cat \in political_categories : InList(pol_cat, category_names)
    IN  IF categories # <<>> /\ excluded THEN FALSE
        ELSE IF categories # <<>> /\ political THEN FALSE
        ELSE IF categories # <<>> /\ has_core_tech THEN TRUE
        ELSE IF /\ categories # <<>>
                /\ InList(Gaming, category_names)
                /\ ~InList(GamesReview, category_names) THEN TRUE
        ELSE KeywordTier(title, description)

(* is_tech_news where a political article needs a core tech category OR a  *)
(* tech company                                                            *)
IsTechNewsPoliticsEither(title, description, categories) ==
    LET category_names == [i \in DOMAIN categories |-> Lower(categories[i])]
        has_core_tech == \E cat \in core_tech_categories : InList(cat, category_names)
        excluded == \E exclude_cat \in strict_exclude_categories :
                        \E i \in DOMAIN category_names :
                            Contains(category_names[i], exclude_cat)
        political == \E pol_cat \in political_categories : InList(pol_cat, category_names)
        has_tech_company == \E company \in tech_companies : InList(company, category_names)
    IN  IF categories # <<>> /\ excluded THEN FALSE
        ELSE IF categories # <<>> /\ political THEN has_core_tech \/ has_tech_company
        ELSE IF categories # <<>> /\ has_core_tech THEN TRUE
        ELSE IF /\ categories # <<>>
                /\ InList(Gaming, category_names)
                /\ ~InList(GamesReview, category_names) THEN TRUE
        ELSE KeywordTier(title, description)

(* is_tech_news, lines 106-186; categories None or [] is <<>> *)
IsTechNews(title, description, categories) ==
    LET category_names == [i \in DOMAIN categories |-> Lower(categories[i])]
        has_core_tech == \E cat \in core_tech_categories : InList(cat, category_names)
        excluded == \E exclude_cat \in strict_exclude_categories :
                        \E i \in DOMAIN category_names :
                            Contains(category_names[i], exclude_cat)
        political == \E pol_cat \in political_categories : InList(pol_cat, category_names)
        has_tech_company == \E company \in tech_companies : InList(company, category_names)
    IN  IF categories # <<>> /\ excluded THEN FALSE
        ELSE IF categories # <<>> /\ political THEN has_core_tech /\ has_tech_company
        ELSE IF categories # <<>> /\ has_core_tech THEN TRUE
        ELSE IF /\ categories # <<>>
                /\ InList(Gaming, category_names)
                /\ ~InList(GamesReview, category_names) THEN TRUE
        ELSE KeywordTier(title, description)

(* The copies of is_tech_news in the test scripts.  test_filtering.py has  *)
(* lists and rules of its own; the text of the function in                 *)
(* test_filtering_final.py, lines 11-91, is that of bot.py lines 106-186,  *)
(* lists included.                                                         *)
test_strict_exclude_categories ==
    {<<"p", "o", "l", "i", "t", "i", "c", "s">>,
     <<"p", "o", "l", "i", "c", "y">>,
     <<"e", "n", "t", "e", "r", "t", "a", "i", "n", "m", "e", "n", "t">>,
     <<"f", "i", "l", "m">>,
     <<"t", "v", " ", "s", "h", "o", "w", "s">>,
     <<"s", "t", "r", "e", "a", "m", "i", "n", "g">>,
     <<"s", "p", "o", "r", "t", "s">>,
     <<"h", "e", "a", "l", "t", "h">>,
     <<"m", "e", "d", "i", "c", "a", "l">>,
     <<"c", "l", "i", "m", "a", "t", "e">>,
     <<"e", "n", "v", "i", "r", "o", "n", "m", "e", "n", "t">>,
     <<"c", "u", "l", "t", "u", "r", "e">>,
     <<"f", "o", "o", "d">>,
     <<"t", "r", "a", "v", "e", "l">>,
     <<"l", "i", "f", "e", "s", "t", "y", "l", "e">>,
     <<"s", "p", "e", "e", "c", "h">>,
     <<"c", "o", "m", "m", "a", "n", "d", " ", "l", "i", "n", "e">>}

(* the list inside line 29 *)
test_core_tech_in_cats ==
    {<<"t", "e", "c", "h">>,
     <<"a", "i">>,
     <<"a", "p", "p", "l", "e">>,
     <<"g", "o", "o", "g", "l", "e">>,
     <<"m", "i", "c", "r", "o", "s", "o", "f", "t">>,
     <<"m", "e", "t", "a">>,
     <<"i", "n", "t", "e", "l">>,
     <<"n", "v", "i", "d", "i", "a">>,
     <<"h", "a", "r", "d", "w", "a", "r", "e">>,
     <<"s", "o", "f", "t", "w", "a", "r", "e">>}

pure_tech_categories ==
    {<<"t", "e", "c", "h">>,
     <<"a", "i">>,
     <<"a", "p", "p", "l", "e">>,
     <<"g", "o", "o", "g", "l", "e">>,
     <<"m", "i", "c", "r", "o", "s", "o", "f", "t">>,
     <<"m", "e", "t", "a">>,
     <<"a", "m", "a", "z", "o", "n">>,
     <<"i", "n", "t", "e", "l">>,
     <<"n", "v", "i", "d", "i", "a">>,
     <<"a", "m", "d">>,
     <<"s", "a", "m", "s", "u", "n", "g">>,
     <<"h", "a", "r", "d", "w", "a", "r", "e">>,
     <<"s", "o", "f", "t", "w", "a", "r", "e">>,
     <<"g", "a", "d", "g", "e", "t", "s">>,
     <<"m", "o", "b", "i", "l", "e">>,
     <<"c", "o", "m", "p", "u", "t", "i", "n", "g">>,
     <<"c", "y", "b", "e", "r", "s", "e", "c", "u", "r", "i", "t", "y">>,
     <<"b", "l", "o", "c", "k", "c", "h", "a", "i", "n">>,
     <<"c", "r", "y", "p", "t", "o", "c", "u", "r", "r", "e", "n", "c", "y">>,
     <<"r", "o", "b", "o", "t", "i", "c", "s">>,
     <<"a", "u", "t", "o", "m", "a", "t", "i", "o", "n">>,
     <<"i", "n", "n", "o", "v", "a", "t", "i", "o", "n">>}

test_exclude_keywords ==
    {<<"p", "o", "l", "i", "t", "i", "c", "s">>,
     <<"e", "l", "e", "c", "t", "i", "o", "n">>,
     <<"c", "o", "n", "g", "r", "e", "s", "s">>,
     <<"s", "e", "n", "a", "t", "e">>,
     <<"p", "r", "e", "s", "i", "d", "e", "n", "t">>,
     <<"g", "o", "v", "e", "r", "n", "m", "e", "n", "t", " ", "p", "o", "l", "i", "c", "y">>,
     <<"c", "l", "i", "m", "a", "t", "e", " ", "c", "h", "a", "n", "g", "e">>,
     <<"g", "l", "o", "b", "a", "l", " ", "w", "a", "r", "m", "i", "n", "g">>,
     <<"e", "n", "v", "i", "r", "o", "n", "m", "e", "n", "t">>,
     <<"h", "e", "a", "l", "t", "h", " ", "c", "r", "i", "s", "i", "s">>,
     <<"m", "o", "v", "i", "e">>,
     <<"f", "i", "l", "m">>,
     <<"t", "v", " ", "s", "h", "o", "w">>,
     <<"c", "e", "l", "e", "b", "r", "i", "t", "y">>,
     <<"e", "n", "t", "e", "r", "t", "a", "i", "n", "m", "e", "n", "t", " ", "i", "n", "d", "u", "s", "t", "r", "y">>,
     <<"s", "p", "o", "r", "t", "s">>,
     <<"f", "o", "o", "t", "b", "a", "l", "l">>,
     <<"b", "a", "s", "k", "e", "t", "b", "a", "l", "l">>,
     <<"o", "l", "y", "m", "p", "i", "c", "s">>}

test_core_tech_keywords ==
    {<<"a", "p", "p", "l", "e">>,
     <<"g", "o", "o", "g", "l", "e">>,
     <<"m", "i", "c", "r", "o", "s", "o", "f", "t">>,
     <<"m", "e", "t", "a">>,
     <<"a", "m", "a", "z", "o", "n">>,
     <<"t", "e", "s", "l", "a">>,
     <<"n", "v", "i", "d", "i", "a">>,
     <<"i", "n", "t", "e", "l">>,
     <<"a", "m", "d">>,
     <<"o", "p", "e", "n", "a", "i">>,
     <<"a", "n", "t", "h", "r", "o", "p", "i", "c">>,
     <<"s", "a", "m", "s", "u", "n", "g">>,
     <<"q", "u", "a", "l", "c", "o", "m", "m">>,
     <<"a", "r", "t", "i", "f", "i", "c", "i", "a", "l", " ", "i", "n", "t", "e", "l", "l", "i", "g", "e", "n", "c", "e">>,
     <<"m", "a", "c", "h", "i", "n", "e", " ", "l", "e", "a", "r", "n", "i", "n", "g">>,
     <<"b", "l", "o", "c", "k", "c", "h", "a", "i", "n">>,
     <<"c", "r", "y", "p", "t", "o", "c", "u", "r", "r", "e", "n", "c", "y">>,
     <<"q", "u", "a", "n", "t", "u", "m", " ", "c", "o", "m", "p", "u", "t", "i", "n", "g">>,
     <<"r", "o", "b", "o", "t", "i", "c", "s">>,
     <<"a", "u", "t", "o", "m", "a", "t", "i", "o", "n">>,
     <<"c", "y", "b", "e", "r", "s", "e", "c", "u", "r", "i", "t", "y">>,
     <<"s", "m", "a", "r", "t", "p", "h", "o", "n", "e">>,
     <<"i", "p", "h", "o", "n", "e">>,
     <<"a", "n", "d", "r", "o", "i", "d">>,
     <<"l", "a", "p", "t", "o", "p">>,
     <<"t", "a", "b", "l", "e", "t">>,
     <<"p", "r", "o", "c", "e", "s", "s", "o", "r">>,
     <<"c", "h", "i", "p">>,
     <<"s", "e", "m", "i", "c", "o", "n", "d", "u", "c", "t", "o", "r">>,
     <<"c", "p", "u">>,
     <<"g", "p", "u">>,
     <<"s", "m", "a", "r", "t", "w", "a", "t", "c", "h">>,
     <<"d", "r", "o", "n", "e">>,
     <<"s", "o", "f", "t", "w", "a", "r", "e">>,
     <<"a", "p", "p", " ", "s", "t", "o", "r", "e">>,
     <<"o", "p", "e", "r", "a", "t", "i", "n", "g", " ", "s", "y", "s", "t", "e", "m">>,
     <<"c", "l", "o", "u", "d", " ", "c", "o", "m", "p", "u", "t", "i", "n", "g">>,
     <<"a", "p", "i">>,
     <<"p", "r", "o", "g", "r", "a", "m", "m", "i", "n", "g">>,
     <<"c", "o", "d", "i", "n", "g">>,
     <<"d", "e", "v", "e", "l", "o", "p", "e", "r">>}

Entertainment == <<"e", "n", "t", "e", "r", "t", "a", "i", "n", "m", "e", "n", "t">>

(* test_filtering.py lines 56-97 *)
TestKeywordTier(title, description) ==
    LET content == Lower(title \o Space \o description)
    IN  IF \E keyword \in test_exclude_keywords : Contains(content, keyword) THEN FALSE
        ELSE \E keyword \in test_core_tech_keywords : Contains(content, keyword)

(* is_tech_news of test_filtering.py, lines 11-97.  The loop of lines      *)
(* 26-34 returns False at the first exclusion term some category holds     *)
(* unless a core tech category is present and no category is political;    *)
(* neither test depends on the term, so the loop returns at its first      *)
(* match or not at all.                                                    *)
TestIsTechNews(title, description, categories) ==
    LET category_names == [i \in DOMAIN categories |-> Lower(categories[i])]
        excluded == \E exclude_cat \in test_strict_exclude_categories :
                        \E i \in DOMAIN category_names :
                            Contains(category_names[i], exclude_cat)
        core_tech_in_cats == \E cat \in test_core_tech_in_cats : InList(cat, category_names)
        political == \E pol_cat \in political_categories : InList(pol_cat, category_names)
        pure_tech == \E tech_cat \in pure_tech_categories :
                        \E i \in DOMAIN category_names :
                            Contains(category_names[i], tech_cat)
    IN  IF categories # <<>> /\ excluded /\ ~core_tech_in_cats THEN FALSE
        ELSE IF categories # <<>> /\ excluded /\ political THEN FALSE
        ELSE IF categories # <<>> /\ pure_tech THEN TRUE
        ELSE IF /\ categories # <<>>
                /\ InList(Gaming, category_names)
                /\ ~InList(Entertainment, category_names)
                /\ ~InList(GamesReview, category_names) THEN TRUE
        ELSE TestKeywordTier(title, description)

(* is_tech_news of test_filtering_final.py, lines 11-91 *)
FinalIsTechNews(title, description, categories) ==
    LET category_names == [i \in DOMAIN categories |-> Lower(categories[i])]
        has_core_tech == \E cat \in core_tech_categories : InList(cat, category_names)
        excluded == \E exclude_cat \in strict_exclude_categories :
                        \E i \in DOMAIN category_names :
                            Contains(category_names[i], exclude_cat)
        political == \E pol_cat \in political_categories : InList(pol_cat, category_names)
        has_tech_company == \E company \in tech_companies : InList(company, category_names)
        content == Lower(title \o Space \o description)
    IN  IF categories # <<>> /\ excluded THEN FALSE
        ELSE IF categories # <<>> /\ political THEN has_core_tech /\ has_tech_company
        ELSE IF categories # <<>> /\ has_core_tech THEN TRUE
        ELSE IF /\ categories # <<>>
                /\ InList(Gaming, category_names)
                /\ ~InList(GamesReview, category_names) THEN TRUE
        ELSE IF \E keyword \in exclude_keywords : Contains(content, keyword) THEN FALSE
        ELSE \E keyword \in core_tech_keywords : Contains(content, keyword)

(* SpecClassifier: is_tech_news called on titles, descriptions and lists   *)
(* of categories chosen to meet every rule, in upper and lower case.       *)
SomeCategories ==
    {<<"T", "e", "c", "h">>,
     <<"a", "p", "p", "l", "e">>,
     <<"O", "p", "e", "n", "A", "I">>,
     <<"E", "n", "t", "e", "r", "t", "a", "i", "n", "m", "e", "n", "t">>,
     <<"e", "s", "p", "o", "r", "t", "s">>,
     <<"P", "o", "l", "i", "t", "i", "c", "s">>,
     <<"g", "a", "m", "i", "n", "g">>,
     <<"g", "a", "m", "e", "s", " ", "r", "e", "v", "i", "e", "w">>,
     <<"s", "c", "i", "e", "n", "c", "e">>}

SomeTitles ==
    {<<>>,
     <<"A", "p", "p", "l", "e", " ", "i", "P", "h", "o", "n", "e">>,
     <<"N", "e", "w", " ", "m", "o", "v", "i", "e">>,
     <<"W", "e", "a", "t", "h", "e", "r", " ", "t", "o", "d", "a", "y">>}

SomeDescriptions ==
    {<<>>,
     <<"G", "P", "U", " ", "c", "h", "i", "p">>,
     <<"f", "o", "o", "t", "b", "a", "l", "l">>}

SomeCategoryLists == UNION { [1..n -> SomeCategories] : n \in 0..MaxCategories }

(* self.is_tech_news(entry.title, description, categories), line 246 *)
CallIsTechNews(title, description, categories) ==
    /\ call' = [fn |-> "is_tech_news", title |-> title, description |-> description,
                categories |-> categories,
                result |-> IsTechNews(title, description, categories)]
    /\ UNCHANGED <<now, configVars, last_check, tick_due, deliveryVars, deliveryHist,
                   schedHist, mentionVars>>

InitClassifier ==
    /\ now = TriggerTime
    /\ feeds = [verge |-> <<>>, cnet |-> <<>>]
    /\ channel_ids = <<MentionChannel>>
    /\ strict_tech_filter = TRUE
    /\ last_check = AbsentFile
    /\ tick_due = FALSE
    /\ InitDelivery
    /\ InitMention
    /\ call = NoCall

Classify ==
    /\ call = NoCall
    /\ \E title \in SomeTitles, description \in SomeDescriptions,
          categories \in SomeCategoryLists :
           CallIsTechNews(title, description, categories)

(* is_tech = is_tech_news(entry.title, description, categories), line 142 *)
(* of test_filtering.py                                                   *)
CallTestIsTechNews(title, description, categories) ==
    /\ call' = [fn |-> "test_filtering.is_tech_news", title |-> title,
                description |-> description, categories |-> categories,
                result |-> TestIsTechNews(title, description, categories)]
    /\ UNCHANGED <<now, configVars, last_check, tick_due, deliveryVars, deliveryHist,
                   schedHist, mentionVars>>

(* the same call, line 136 of test_filtering_final.py *)
CallFinalIsTechNews(title, description, categories) ==
    /\ call' = [fn |-> "test_filtering_final.is_tech_news", title |-> title,
                description |-> description, categories |-> categories,
                result |-> FinalIsTechNews(title, description, categories)]
    /\ UNCHANGED <<now, configVars, last_check, tick_due, deliveryVars, deliveryHist,
                   schedHist, mentionVars>>

ClassifyTest ==
    /\ call = NoCall
    /\ \E title \in SomeTitles, description \in SomeDescriptions,
          categories \in SomeCategoryLists :
           CallTestIsTechNews(title, description, categories)

ClassifyFinal ==
    /\ call = NoCall
    /\ \E title \in SomeTitles, description \in SomeDescriptions,
          categories \in SomeCategoryLists :
           CallFinalIsTechNews(title, description, categories)

NextClassifier == Classify \/ ClassifyTest \/ ClassifyFinal

SpecClassifier == InitClassifier /\ [][NextClassifier]_vars

IsClassified == call.fn = "is_tech_news"

(* some category, lower-cased, holds a hard-exclude category *)
MatchesHardExclude(categories) ==
    \E i \in DOMAIN categories, exclude_cat \in strict_exclude_categories :
        Contains(Lower(categories[i]), exclude_cat)

(* some category, lower-cased, is a named tech company *)
HasTechCompany(categories) ==
    \E i \in DOMAIN categories : Lower(categories[i]) \in tech_companies

HasCoreTech(categories) ==
    \E i \in DOMAIN categories : Lower(categories[i]) \in core_tech_categories

(* some category, lower-cased, is 'politics' or 'policy' *)
IsPolitical(categories) ==
    \E i \in DOMAIN categories : Lower(categories[i]) \in political_categories

(* C21 as stated: whenever the categories include a core tech category and *)
(* none matches a hard-exclude category, is_tech_news returns True,        *)
(* whatever the other categories ('politics' and 'policy' included), the   *)
(* title and the description are.                                          *)
C21_CoreTechWithoutExcludeIsRelevant ==
    (/\ IsClassified
     /\ HasCoreTech(call.categories)
     /\ ~MatchesHardExclude(call.categories))
        => call.result = TRUE

(* C21 amended: whenever the categories include a core tech category, none *)
(* matches a hard-exclude category, and either none is 'politics' or       *)
(* 'policy' or one is a named tech company, is_tech_news returns True      *)
(* whatever the title and the description are.                             *)
C21_CoreTechIsRelevantUnlessPoliticalWithoutCompany ==
    (/\ IsClassified
     /\ HasCoreTech(call.categories)
     /\ ~MatchesHardExclude(call.categories)
     /\ (IsPolitical(call.categories) => HasTechCompany(call.categories)))
        => call.result = TRUE

C21_Witness ==
    /\ IsClassified
    /\ call.categories = <<<<"a", "p", "p", "l", "e">>, <<"P", "o", "l", "i", "t", "i", "c", "s">>>>
    /\ call.title = <<"N", "e", "w", " ", "m", "o", "v", "i", "e">>
    /\ call.description = <<"f", "o", "o", "t", "b", "a", "l", "l">>
    /\ call.result = TRUE

(* the lower-cased title, a space and the description hold a core tech keyword *)
HasTechKeyword(title, description) ==
    \E keyword \in core_tech_keywords :
        Contains(Lower(title \o Space \o description), keyword)

(* C22: with no categories and no core tech keyword in the lower-cased     *)
(* title and description, is_tech_news returns False; so it does for an    *)
(* empty title and description.                                            *)
C22_NoCategoriesNoTechKeywordIsOffTopic ==
    (/\ IsClassified
     /\ call.categories = <<>>
     /\ ~HasTechKeyword(call.title, call.description))
        => call.result = FALSE

C22_Witness ==
    /\ IsClassified
    /\ call.categories = <<>>
    /\ call.title = <<>>
    /\ call.description = <<>>
    /\ call.result = FALSE

C26_ExclusionYieldsToTechCategory ==
    (IsClassified /\ MatchesHardExclude(call.categories))
        => IF ~HasCoreTech(call.categories) THEN call.result = FALSE
           ELSE IF IsPolitical(call.categories)
                THEN call.result = HasTechCompany(call.categories)
           ELSE call.result = TRUE

(* the lower-cased title, a space and the description hold an exclusion keyword *)
HasExcludeKeyword(title, description) ==
    \E keyword \in exclude_keywords :
        Contains(Lower(title \o Space \o description), keyword)

(* no rule of the category tier returns: the list is empty, or it matches  *)
(* no hard-exclude, political or core tech category and is not gaming      *)
(* without games review                                                    *)
NoCategoryRuleDecides(categories) ==
    \/ categories = <<>>
    \/ /\ ~MatchesHardExclude(categories)
       /\ ~IsPolitical(categories)
       /\ ~HasCoreTech(categories)
       /\ ~(/\ \E i \in DOMAIN categories : Lower(categories[i]) = Gaming
            /\ \A i \in DOMAIN categories : Lower(categories[i]) # GamesReview)

(* C27: when the categories are empty or no category rule decides,         *)
(* is_tech_news returns False if an exclusion keyword occurs in the        *)
(* lower-cased title and description, tech keywords or not, and otherwise  *)
(* True exactly when a core tech keyword occurs.                           *)
C27_KeywordTierExclusionFirst ==
    (IsClassified /\ NoCategoryRuleDecides(call.categories))
        => call.result = IF HasExcludeKeyword(call.title, call.description) THEN FALSE
                         ELSE HasTechKeyword(call.title, call.description)

C27_Witness ==
    /\ IsClassified
    /\ call.categories = <<<<"s", "c", "i", "e", "n", "c", "e">>>>
    /\ call.title = <<"A", "p", "p", "l", "e", " ", "i", "P", "h", "o", "n", "e">>
    /\ call.description = <<"f", "o", "o", "t", "b", "a", "l", "l">>
    /\ call.result = FALSE

IsTestClassified ==
    call.fn \in {"test_filtering.is_tech_news", "test_filtering_final.is_tech_news"}

(* C28: the is_tech_news of test_filtering.py and that of                  *)
(* test_filtering_final.py return, for every title, description and        *)
(* categories, what NewsService.is_tech_news of bot.py returns.            *)
C28_TestCopiesAgreeWithBot ==
    IsTestClassified
        => call.result = IsTechNews(call.title, call.description, call.categories)

----------------------------------------------------------------------------
(* Further properties of one pipeline run (Spec)                           *)

(* what the translation step can return for a text *)
TranslationOutputs(text) == {TranslateToMongolian(text, b) : b \in Backends}

(* C29: every message the chat platform accepted from the pipeline, embed  *)
(* or plain text, carries as title and as description an output of the     *)
(* translation step for the article's title and description: the           *)
(* translated text or the marked original, never the bare original.        *)
C29_SentTextIsTranslated ==
    wire # NoMessage =>
        LET a == articles[wire.run][wire.article] IN
        /\ wire.msg.title \in TranslationOutputs(a.title)
        /\ wire.msg.description \in TranslationOutputs(a.description)

----------------------------------------------------------------------------
(* SpecCommand: !news sent again and again by members with and without the *)
(* manage_messages permission, every external call but the translation    *)
(* failing or succeeding freely.  The history is that of the last command, which is noted with   *)
(* the caller's permission and the replies given through ctx.send.         *)

InitCommand ==
    /\ now = TriggerTime
    /\ feeds = [verge |-> [i \in 1..MaxVerge |-> VergeEntry(i)],
                cnet |-> [i \in 1..MaxCnet |-> CnetEntry(i)]]
    /\ channel_ids = <<MentionChannel, MentionChannel + 1>>
    /\ strict_tech_filter = TRUE
    /\ last_check = AbsentFile
    /\ tick_due = FALSE
    /\ InitDelivery
    /\ InitMention
    /\ call = NoCall

CommandInvoke ==
    \E privileged \in BOOLEAN :
        /\ FetchNewsCommand(privileged)
        /\ call' = [fn |-> "fetch_news", manage_messages |-> privileged,
                    replies |-> <<>>]
        /\ RecordBegin("cmd")
        /\ UNCHANGED schedHist

CommandRefused ==
    \E o \in SendOutcomes :
        /\ FetchNewsRefused(o)
        /\ call' = [call EXCEPT !.replies = Append(@, <<"refusal", o>>)]
        /\ UNCHANGED <<deliveryHist, schedHist>>

CommandRun ==
    \E o \in SendOutcomes, vergeUp \in BOOLEAN, cnetUp \in BOOLEAN :
        /\ FetchNewsRun(o, vergeUp, cnetUp)
        /\ call' = [call EXCEPT !.replies = Append(@, <<"fetching", o>>)]
        /\ UNCHANGED <<deliveryHist, schedHist>>

CommandResolve ==
    \E r \in ResolveOutcomes :
        ResolveChannel("cmd", r) /\ RecordResolve("cmd", r) /\ UNCHANGED schedHist

CommandSend ==
    \E o \in SendOutcomes :
        SendArticle("cmd", o) /\ RecordSend("cmd", "ok", "ok", o) /\ UNCHANGED schedHist

CommandPaceArticle == ArticleSleep("cmd") /\ UNCHANGED <<deliveryHist, schedHist>>
CommandPaceChannel == ChannelSleep("cmd") /\ UNCHANGED <<deliveryHist, schedHist>>

CommandFinish ==
    \E io \in SaveOutcomes :
        FinishRun("cmd", io) /\ RecordFinish("cmd", io)
        /\ UNCHANGED <<schedHist, unitVars>>

CommandDone ==
    \E o \in SendOutcomes :
        /\ FetchNewsDone(o)
        /\ call' = [call EXCEPT !.replies = Append(@, <<"finished", o>>)]
        /\ UNCHANGED <<deliveryHist, schedHist>>

NextCommand ==
    \/ CommandInvoke \/ CommandRefused \/ CommandRun \/ CommandResolve \/ CommandSend
    \/ CommandPaceArticle \/ CommandPaceChannel \/ CommandFinish \/ CommandDone

SpecCommand == InitCommand /\ [][NextCommand]_vars

Unprivileged == call.fn = "fetch_news" /\ ~call.manage_messages

(* C24: once a member without manage_messages has sent !news, and until    *)
(* the next !news, the command is never inside fetch_and_post_news, no     *)
(* step fetches articles, attempts a send, has a message accepted by a     *)
(* channel or changes the watermark, and the caller is sent the refusal    *)
(* and nothing else.                                                       *)
C24_UnprivilegedCommandOnlyRefused ==
    /\ [](Unprivileged =>
            /\ pc["cmd"] \in {"refuse", "idle"}
            /\ resolved["cmd"] = {} /\ tried["cmd"] = {} /\ ~wrote["cmd"]
            /\ \A i \in DOMAIN call.replies : call.replies[i][1] = "refusal"
            /\ Len(call.replies) = IF pc["cmd"] = "idle" THEN 1 ELSE 0)
    /\ [][(Unprivileged /\ Unprivileged' /\ call'.replies # <<>>)
            => UNCHANGED <<articles, force, wire, last_check>>]_vars

(* the refusal reached a caller without the permission, after an earlier   *)
(* command of a privileged member had sent an article and saved            *)
C24_Witness ==
    /\ Unprivileged
    /\ pc["cmd"] = "idle"
    /\ call.replies = <<<<"refusal", "ok">>>>
    /\ wire # NoMessage
    /\ last_check # AbsentFile

----------------------------------------------------------------------------
(* SpecPacing: one scheduled run over two channels, every lookup and send  *)
(* failing or succeeding freely.  The log holds, in order, every send      *)
(* attempt of the run and every sleep the run has completed.               *)

InitPacing ==
    /\ now = TriggerTime
    /\ feeds = [verge |-> [i \in 1..MaxVerge |-> VergeEntry(i)],
                cnet |-> [i \in 1..MaxCnet |-> CnetEntry(i)]]
    /\ channel_ids = <<MentionChannel, MentionChannel + 1>>
    /\ strict_tech_filter = TRUE
    /\ last_check = AbsentFile
    /\ tick_due = TRUE
    /\ InitDelivery
    /\ InitMention
    /\ call = NoCall

PacingTick == NewsCheckTask(TRUE, TRUE) /\ UNCHANGED <<deliveryHist, schedHist>>

PacingResolve ==
    \E r \in ResolveOutcomes :
        ResolveChannel("sched", r) /\ UNCHANGED <<deliveryHist, schedHist>>

PacingSend ==
    \E o \in SendOutcomes :
        /\ SendArticle("sched", o)
        /\ delivered' = Append(delivered, [kind |-> "send", seconds |-> 0,
                                           channel |-> channel_ids[ti["sched"]],
                                           article |-> ai["sched"], outcome |-> o])
        /\ UNCHANGED <<deliveryHist, runs_started, restarts>>

PacingSleepArticle ==
    /\ ArticleSleep("sched")
    /\ delivered' = Append(delivered, [kind |-> "sleep", seconds |-> ArticleDelaySeconds,
                                       channel |-> channel_ids[ti["sched"]],
                                       article |-> ai["sched"], outcome |-> "ok"])
    /\ UNCHANGED <<deliveryHist, runs_started, restarts>>

PacingSleepChannel ==
    /\ ChannelSleep("sched")
    /\ delivered' = Append(delivered, [kind |-> "sleep", seconds |-> ChannelDelaySeconds,
                                       channel |-> channel_ids[ti["sched"]],
                                       article |-> ai["sched"], outcome |-> "ok"])
    /\ UNCHANGED <<deliveryHist, runs_started, restarts>>

PacingFinish ==
    FinishRun("sched", "ok") /\ UNCHANGED <<deliveryHist, schedHist, unitVars>>

NextPacing ==
    \/ PacingTick \/ PacingResolve \/ PacingSend \/ PacingSleepArticle
    \/ PacingSleepChannel \/ PacingFinish

SpecPacing == InitPacing /\ [][NextPacing]_vars

(* the seconds slept between places i and j of the log *)
RECURSIVE SleptBetween(_, _, _)
SleptBetween(log, i, j) ==
    IF i + 1 >= j THEN 0
    ELSE log[i + 1].seconds + SleptBetween(log, i + 1, j)

(* places i < j of the log hold two send attempts with none in between *)
ConsecutiveSends(log, i, j) ==
    /\ i < j
    /\ log[i].kind = "send" /\ log[j].kind = "send"
    /\ \A k \in (i + 1)..(j - 1) : log[k].kind # "send"

(* C30: in a run, between two consecutive send attempts to the same target *)
(* at least the article delay has been slept, and between the last attempt *)
(* to a target and the first attempt to the next at least the channel      *)
(* delay, whatever the outcomes of the sends and of the lookups.           *)
C30_PacingBetweenSendAttempts ==
    \A i \in DOMAIN delivered, j \in DOMAIN delivered :
        ConsecutiveSends(delivered, i, j) =>
            SleptBetween(delivered, i, j) >=
                IF delivered[i].channel = delivered[j].channel
                THEN ArticleDelaySeconds ELSE ChannelDelaySeconds

----------------------------------------------------------------------------
(* Start of the process: main() of bot.py, run directly or in the thread   *)
(* run_discord_bot of web_server.py.  An environment variable is unset or  *)
(* set to a string of characters.  The start in progress is followed in    *)
(* `call`: the environment, the place reached, self.token, the errors      *)
(* logged, whether the client connected, the dict bot_status of            *)
(* web_server.py and the exit status of the process.                       *)

Unset == [set |-> FALSE, value |-> <<>>]
Value(v) == [set |-> TRUE, value |-> v]

(* os.getenv(name, default) *)
Getenv(var, default) == IF var.set THEN var.value ELSE default

(* str.split(',') *)
RECURSIVE SplitComma(_, _, _)
SplitComma(s, i, field) ==
    IF i > Len(s) THEN <<field>>
    ELSE IF s[i] = "," THEN <<field>> \o SplitComma(s, i + 1, <<>>)
    ELSE SplitComma(s, i + 1, Append(field, s[i]))

(* str.strip() *)
RECURSIVE Strip(_)
Strip(s) ==
    IF s = <<>> THEN s
    ELSE IF Head(s) = " " THEN Strip(Tail(s))
    ELSE IF s[Len(s)] = " " THEN Strip(SubSeq(s, 1, Len(s) - 1))
    ELSE s

Digits == <<"0", "1", "2", "3", "4", "5", "6", "7", "8", "9">>

(* int(s) raises ValueError unless s, stripped, is a run of digits *)
IsInt(s) ==
    /\ Strip(s) # <<>>
    /\ \A i \in DOMAIN Strip(s) : \E d \in DOMAIN Digits : Digits[d] = Strip(s)[i]

RECURSIVE DigitsValue(_)
DigitsValue(s) ==
    IF s = <<>> THEN 0
    ELSE 10 * DigitsValue(SubSeq(s, 1, Len(s) - 1))
         + (CHOOSE d \in DOMAIN Digits : Digits[d] = s[Len(s)]) - 1

(* int(s) *)
ToInt(s) == DigitsValue(Strip(s))

(* GDGNewsBot.__init__ lines 297-307: the configured channel ids, or the   *)
(* ValueError of int()                                                     *)
ParseChannelIds(env) ==
    LET channel_ids_str == Getenv(env.DISCORD_CHANNEL_IDS, <<>>)
        single_channel == Getenv(env.DISCORD_CHANNEL_ID, <<"0">>)
        fields == SelectSeq(SplitComma(channel_ids_str, 1, <<>>),
                            LAMBDA cid : Strip(cid) # <<>>)
    IN  IF channel_ids_str # <<>>
        THEN IF \A i \in DOMAIN fields : IsInt(fields[i])
             THEN [raises |-> FALSE, ids |-> [i \in DOMAIN fields |-> ToInt(fields[i])]]
             ELSE [raises |-> TRUE, ids |-> <<>>]
        ELSE IF single_channel # <<"0">>
        THEN IF IsInt(single_channel)
             THEN [raises |-> FALSE, ids |-> <<ToInt(single_channel)>>]
             ELSE [raises |-> TRUE, ids |-> <<>>]
        ELSE [raises |-> FALSE, ids |-> <<>>]

(* `not self.token`: os.getenv gave None or the empty string *)
TokenMissing(token) == ~token.set \/ token.value = <<>>

NoExit == -1
StartingStatus == [status |-> "starting", error |-> FALSE, connected |-> FALSE]
startFrame == <<now, feeds, last_check, tick_due, deliveryVars, deliveryHist,
                schedHist, mentionVars>>

(* the process is started: `python bot.py` (lines 983-984) or the thread   *)
(* of web_server.py (line 156)                                             *)
Launch(entry, env) ==
    /\ call = NoCall
    /\ call' = [fn |-> entry, env |-> env,
                pc |-> IF entry = "web_server.py" THEN "thread" ELSE "construct",
                token |-> Unset, logged |-> <<>>, connected |-> FALSE,
                bot_status |-> StartingStatus, exit |-> NoExit]
    /\ UNCHANGED <<startFrame, channel_ids, strict_tech_filter>>

(* run_discord_bot lines 126-132: the status is set to running and         *)
(* connected before bot_main() is called                                   *)
RunDiscordBot ==
    /\ call.fn = "web_server.py" /\ call.pc = "thread"
    /\ call' = [call EXCEPT !.pc = "construct",
                            !.bot_status = [status |-> "running", error |-> FALSE,
                                            connected |-> TRUE]]
    /\ UNCHANGED <<startFrame, channel_ids, strict_tech_filter>>

(* main() line 980: GDGNewsBot(), lines 292-329 *)
Construct ==
    /\ call.fn # "none" /\ call.pc = "construct"
    /\ LET parsed == ParseChannelIds(call.env) IN
       IF parsed.raises
       THEN /\ call' = [call EXCEPT !.pc = "raised", !.token = call.env.DISCORD_TOKEN]
            /\ UNCHANGED <<channel_ids, strict_tech_filter>>
       ELSE /\ call' = [call EXCEPT !.pc = "run", !.token = call.env.DISCORD_TOKEN]
            /\ channel_ids' = parsed.ids
            /\ strict_tech_filter' =
                   (Lower(Getenv(call.env.STRICT_TECH_FILTER, <<"t", "r", "u", "e">>))
                        = <<"t", "r", "u", "e">>)
    /\ UNCHANGED startFrame

(* GDGNewsBot.run lines 964-976: the two checks, each logging an error and *)
(* returning                                                               *)
Run ==
    /\ call.fn # "none" /\ call.pc = "run"
    /\ call' = IF TokenMissing(call.token)
               THEN [call EXCEPT !.pc = "returned",
                                 !.logged = Append(@, "DISCORD_TOKEN not found")]
               ELSE IF channel_ids = <<>>
               THEN [call EXCEPT !.pc = "returned",
                                 !.logged = Append(@, "No Discord channels configured")]
               ELSE [call EXCEPT !.pc = "connecting"]
    /\ UNCHANGED <<startFrame, channel_ids, strict_tech_filter>>

(* line 977: self.bot.run(self.token) logs in and serves until the process *)
(* is stopped, or raises discord.LoginFailure                              *)
Connect(o) ==
    /\ call.fn # "none" /\ call.pc = "connecting"
    /\ call' = IF o = "ready"
               THEN [call EXCEPT !.pc = "serving", !.connected = TRUE]
               ELSE [call EXCEPT !.pc = "raised"]
    /\ UNCHANGED <<startFrame, channel_ids, strict_tech_filter>>

(* main() has returned or raised.  Run directly, the interpreter exits     *)
(* with status 0 after a return and 1 after an exception; in the thread,   *)
(* lines 135-139 of run_discord_bot catch the exception and a return       *)
(* leaves bot_status as it is, and the process goes on serving /health.    *)
EndOfMain ==
    /\ call.fn # "none" /\ call.pc \in {"returned", "raised"}
    /\ call' = IF call.fn = "bot.py"
               THEN [call EXCEPT !.pc = "exited",
                                 !.exit = IF call.pc = "returned" THEN 0 ELSE 1]
               ELSE IF call.pc = "raised"
               THEN [call EXCEPT !.pc = "thread_over",
                                 !.bot_status = [status |-> "error", error |-> TRUE,
                                                 connected |-> FALSE]]
               ELSE [call EXCEPT !.pc = "thread_over"]
    /\ UNCHANGED <<startFrame, channel_ids, strict_tech_filter>>

(* SpecStartup: the process started either way under environments that set *)
(* or leave out each variable                                              *)
SomeTokens == {Unset, Value(<<>>), Value(<<"t", "o", "k">>)}
SomeChannelIds == {Unset, Value(<<>>), Value(<<"1", "0", "1", ",", " ", "1", "0", "2">>),
                   Value(<<" ", ",", " ">>), Value(<<"1", "x">>)}
SomeChannelId == {Unset, Value(<<"1", "0", "1">>), Value(<<>>)}
SomeFilters == {Unset, Value(<<"F", "a", "l", "s", "e">>)}
Environments ==
    [DISCORD_TOKEN : SomeTokens, DISCORD_CHANNEL_IDS : SomeChannelIds,
     DISCORD_CHANNEL_ID : SomeChannelId, STRICT_TECH_FILTER : SomeFilters]

InitStartup ==
    /\ now = TriggerTime
    /\ feeds = [verge |-> <<>>, cnet |-> <<>>]
    /\ channel_ids = <<>>
    /\ strict_tech_filter = TRUE
    /\ last_check = AbsentFile
    /\ tick_due = FALSE
    /\ InitDelivery
    /\ InitMention
    /\ call = NoCall

StartupLaunch ==
    \E entry \in {"bot.py", "web_server.py"}, env \in Environments : Launch(entry, env)
StartupConnect == \E o \in {"ready", "LoginFailure"} : Connect(o)

NextStartup ==
    \/ StartupLaunch \/ RunDiscordBot \/ Construct \/ Run \/ StartupConnect \/ EndOfMain

SpecStartup == InitStartup /\ [][NextStartup]_vars

IsStart == call.fn \in {"bot.py", "web_server.py"}

(* the environment lacks the token, or every channel id *)
RequiredMissing(env) ==
    \/ TokenMissing(env.DISCORD_TOKEN)
    \/ ~ParseChannelIds(env).raises /\ ParseChannelIds(env).ids = <<>>

(* the start is over: the process has exited or the bot thread has ended *)
StartOver == call.pc \in {"exited", "thread_over"}

(* C23: when the token or every channel id is missing, the process never   *)
(* connects to the chat platform and, once the start is over, an error     *)
(* naming a missing value has been logged and the process is in a failed   *)
(* state: a non-zero exit status, or the error status where the bot runs   *)
(* in the thread of the web server; it is never left as running.           *)
C23_MissingConfigRefusesToStart ==
    (IsStart /\ RequiredMissing(call.env)) =>
        /\ ~call.connected
        /\ call.pc \notin {"connecting", "serving"}
        /\ StartOver =>
              /\ \/ /\ TokenMissing(call.env.DISCORD_TOKEN)
                    /\ \E i \in DOMAIN call.logged : call.logged[i] = "DISCORD_TOKEN not found"
                 \/ /\ ParseChannelIds(call.env).ids = <<>>
                    /\ \E i \in DOMAIN call.logged :
                           call.logged[i] = "No Discord channels configured"
              /\ IF call.fn = "bot.py" THEN call.exit > 0
                 ELSE call.bot_status.status = "error" /\ ~call.bot_status.connected

----------------------------------------------------------------------------
(* SpecOnDemand: handle_news_request followed together with what happens   *)
(* to the messages it sends.  `call` holds, per handler, the state of      *)
(* loading_msg (the "searching" placeholder) and the texts that the chat   *)
(* platform accepted from the request, in order.                           *)

NoPlaceholder == "none"

(* lines 403-432: loading_msg after the await at pcv ended with outcome o; *)
(* discord.NotFound from edit or delete says the message no longer exists  *)
PlaceholderAfter(pcv, o, ph) ==
    CASE pcv \in {"load_reply", "load_send", "load_plain"} /\ o = "ok" -> "searching"
      [] pcv = "edit" /\ o = "ok" -> "edited"
      [] pcv = "delete" /\ o = "ok" -> "deleted"
      [] pcv \in {"edit", "delete"} /\ o = "NotFound" -> "gone"
      [] OTHER -> ph

(* the literal that the await at pcv hands to the chat platform: lines 389, *)
(* 394-410, 416-427, 437-448, 452-458, 468-479 and 487-535.  None of them   *)
(* is built from the exception e, which only goes to logger.error           *)
MessageOf(pcv) ==
    CASE pcv = "refuse" -> "no embed permission"
      [] pcv \in {"load_reply", "load_send", "load_plain"} -> "searching"
      [] pcv \in {"edit", "edit_fallback"} -> "no news"
      [] pcv \in {"ok_reply", "ok_send", "ok_plain"} -> "success"
      [] pcv \in {"post", "post_plain"} -> "article"
      [] pcv \in {"err_reply", "err_send"} -> "apology"
      [] pcv \in {"gen_reply", "gen_send"} -> "greeting"
      [] OTHER -> "nothing"

(* the texts accepted so far, after the await at pcv ended with outcome o *)
AcceptedAfter(pcv, o, texts) ==
    IF o = "ok" /\ MessageOf(pcv) # "nothing" THEN Append(texts, MessageOf(pcv)) ELSE texts

NewRequest == [placeholder |-> NoPlaceholder, texts |-> <<>>]

(* the await of a handler ends, and the messages follow *)
FollowAwait(h, o) ==
    call' = [call EXCEPT ![h] =
                [placeholder |-> PlaceholderAfter(hpc[h], o, @.placeholder),
                 texts |-> AcceptedAfter(hpc[h], o, @.texts)]]

onDemandFrame == <<configVars, last_check, tick_due, deliveryVars, deliveryHist, schedHist>>

OnDemandMention ==
    \E key \in Keys, news \in BOOLEAN, perm \in PermissionOutcomes, h \in Handlers :
        /\ OnMessage(key, news, perm, h)
        /\ call' = IF InCooldown(recent_mentions, key, now) THEN call
                   ELSE [call EXCEPT ![h] = NewRequest]
        /\ UNCHANGED <<now, onDemandFrame>>

OnDemandAwait ==
    \E h \in Handlers, o \in MentionOutcomes, vergeUp \in BOOLEAN, cnetUp \in BOOLEAN :
        /\ HandlerAwait(h, o, vergeUp, cnetUp)
        /\ FollowAwait(h, o)
        /\ UNCHANGED <<now, onDemandFrame>>

NextOnDemand == MentionClock \/ OnDemandMention \/ OnDemandAwait \/ MentionSleep

InitOnDemand ==
    /\ now = TriggerTime
    /\ feeds \in {[verge |-> [i \in 1..nv |-> VergeEntry(i)], cnet |-> <<>>] : nv \in 0..1}
    /\ channel_ids = <<MentionChannel>>
    /\ strict_tech_filter = TRUE
    /\ last_check = AbsentFile
    /\ tick_due = FALSE
    /\ InitDelivery
    /\ InitMention
    /\ call = [h \in Handlers |-> NewRequest]

SpecOnDemand == InitOnDemand /\ [][NextOnDemand]_vars

(* the request of handler h posted its placeholder and is over, or has     *)
(* answered with the apology                                               *)
PlaceholderPosted(h) == call[h].placeholder # NoPlaceholder
Apologized(h) ==
    \E i \in DOMAIN call[h].texts : call[h].texts[i] = "apology"

(* C31: once a request that posted its "searching" placeholder is over,    *)
(* or has entered Error and sent its apology, the placeholder has been     *)
(* edited into the final message or deleted or was already gone; and every *)
(* text sent to the user is one of the fixed messages, none the text of    *)
(* the error.                                                              *)
C31_PlaceholderReplacedAtTerminalState ==
    \A h \in Handlers :
        /\ (PlaceholderPosted(h) /\ (hpc[h] = "idle" \/ Apologized(h)))
              => call[h].placeholder \in {"edited", "deleted", "gone"}
        /\ \A i \in DOMAIN call[h].texts :
              call[h].texts[i] \in {"no embed permission", "searching", "no news",
                                    "success", "article", "apology", "greeting"}

----------------------------------------------------------------------------
(* The de-dup map recent_mentions, under SpecDebounce *)

(* on_message has just processed a mention: no tick of the clock since *)
JustProcessed ==
    /\ last_event.outcome \in {"news", "general"}
    /\ processed_at[last_event.key] = now

(* the keys that recent_mentions holds *)
Recorded == {k \in Keys : recent_mentions[k] # NoTime}

(* history: the distinct keys processed in the last five minutes *)
ProcessedLately ==
    {k \in Keys : processed_at[k] # NoTime /\ now - processed_at[k] <= MentionKeepSeconds}

(* C32: after every processed (not suppressed) mention, recent_mentions    *)
(* holds no entry older than five minutes, and so no more entries than     *)
(* distinct mentions were processed in the last five minutes.              *)
C32_DedupMapBounded ==
    JustProcessed =>
        /\ \A k \in Recorded : now - recent_mentions[k] <= MentionKeepSeconds
        /\ Cardinality(Recorded) <= Cardinality(ProcessedLately)

(* a processed mention evicted the entry of a key processed more than five *)
(* minutes before, and kept the entry of no other                          *)
C32_Witness ==
    /\ JustProcessed
    /\ \E k \in Keys : /\ processed_at[k] # NoTime
                       /\ now - processed_at[k] > MentionKeepSeconds
                       /\ recent_mentions[k] = NoTime
    /\ Cardinality(Recorded) = 1

----------------------------------------------------------------------------
(* Malformed entries, under SpecAdapter.  An entry whose processing raises *)
(* inside the try of line 230 (published_parsed missing or None, a missing *)
(* description, title or link) is the entry with parsed = FALSE.           *)

(* the feed without the entries that cannot be processed *)
WellFormed(entries) == SelectSeq(entries, LAMBDA entry : entry.parsed)

Malformed(entries) == {i \in DOMAIN entries : ~entries[i].parsed}

(* C33: an entry that cannot be processed is skipped and every other entry *)
(* of the feed is processed as if the malformed one were not there: the    *)
(* adapter returns what it returns for the feed without its malformed      *)
(* entries, so the batch is neither emptied nor cut short.                 *)
C33_MalformedEntrySkipped ==
    (IsAdapter /\ call.reachable /\ Len(EntriesOf(call.source_name)) <= ScanLimit) =>
        LET entries == EntriesOf(call.source_name) IN
        /\ ~call.raised
        /\ call.result = FetchFromSource(WellFormed(entries), TRUE, call.source_name,
                                         now, strict_tech_filter)
        /\ \A k \in DOMAIN call.result :
              \E i \in DOMAIN entries :
                  entries[i].parsed /\ entries[i].link = call.result[k].link
        /\ (\E i \in DOMAIN entries : Qualifies(entries[i])) => call.result # <<>>

(* malformed entries at the head and in the middle of the feed, and the    *)
(* two articles are made from the entries after them                       *)
C33_Witness ==
    /\ IsAdapter /\ call.reachable
    /\ Len(feeds.verge) = MaxEntries
    /\ Malformed(feeds.verge) = {1, 3}
    /\ Len(call.result) = MaxPerSource
    /\ call.result[1].link = feeds.verge[2].link
    /\ call.result[2].link = feeds.verge[MaxEntries].link

----------------------------------------------------------------------------
(* SpecTranslate: translate_to_mongolian on texts of every shape.  A text  *)
(* is given as the sentences that text.split('. ') yields, each with an    *)
(* identity and its number of characters and without outer whitespace; a   *)
(* piece handed to the backend is the sentences it is made of and its      *)
(* number of characters.                                                   *)

max_chunk_size == 500

MaxSentences == 3    \* sentences of a text given to the translation service

SentenceLengths == {0, 1, 249, 250, 498, 499, 500, 501}

Texts ==
    UNION { { [i \in 1..n |-> [id |-> i, len |-> lens[i]]] : lens \in [1..n -> SentenceLengths] } :
            n \in 1..MaxSentences }

RECURSIVE SumLen(_)
SumLen(sentences) ==
    IF sentences = <<>> THEN 0 ELSE Head(sentences).len + SumLen(Tail(sentences))

(* len(text): the sentences and the ". " between them *)
TextLen(sentences) == SumLen(sentences) + 2 * (Len(sentences) - 1)

Ids(sentences) == [i \in DOMAIN sentences |-> sentences[i].id]

EmptyChunk == [ids |-> <<>>, len |-> 0]

(* current_chunk += sentence + ". " (line 63), current_chunk = sentence +  *)
(* ". " (line 69)                                                          *)
AddSentence(chunk, sentence) ==
    [ids |-> Append(chunk.ids, sentence.id), len |-> chunk.len + sentence.len + 2]

(* current_chunk.strip() (lines 67, 77): the chunk ends with ". " and      *)
(* loses the blank                                                         *)
Stripped(chunk) == [ids |-> chunk.ids, len |-> chunk.len - 1]

(* the loop of lines 61-73 and the rest of lines 75-78: the pieces handed  *)
(* to translator.translate, in order                                       *)
RECURSIVE Chunks(_, _, _, _)
Chunks(sentences, i, current_chunk, translated_chunks) ==
    IF i > Len(sentences)
    THEN IF current_chunk.len > 0 THEN Append(translated_chunks, Stripped(current_chunk))
         ELSE translated_chunks
    ELSE LET sentence == sentences[i] IN
         IF current_chunk.len + sentence.len < max_chunk_size
         THEN Chunks(sentences, i + 1, AddSentence(current_chunk, sentence),
                     translated_chunks)
         ELSE IF current_chunk.len > 0
         THEN Chunks(sentences, i + 1, AddSentence(EmptyChunk, sentence),
                     Append(translated_chunks, Stripped(current_chunk)))
         ELSE Chunks(sentences, i + 1, current_chunk,
                     Append(translated_chunks,
                            [ids |-> <<sentence.id>>, len |-> sentence.len]))

(* lines 51-78: the pieces of a text, the whole text when it is short *)
Pieces(sentences) ==
    IF TextLen(sentences) <= max_chunk_size
    THEN << [ids |-> Ids(sentences), len |-> TextLen(sentences)] >>
    ELSE Chunks(sentences, 1, EmptyChunk, <<>>)

(* await self.translator.translate_to_mongolian(text): the backend raises  *)
(* on piece failAt, or on none when failAt is 0; " ".join of line 80, or   *)
(* the marked original of line 84                                          *)
CallTranslateToMongolian(sentences, failAt) ==
    /\ call = NoCall
    /\ LET pieces == Pieces(sentences)
           passed == IF failAt \in DOMAIN pieces THEN SubSeq(pieces, 1, failAt) ELSE pieces
       IN  call' = [fn |-> "translate_to_mongolian", text |-> sentences,
                    passed |-> passed,
                    failed |-> failAt \in DOMAIN pieces,
                    result |-> IF failAt \in DOMAIN pieces
                               THEN <<FailureMarker, Ids(sentences)>>
                               ELSE [k \in DOMAIN pieces |-> <<"mn", pieces[k].ids>>]]
    /\ UNCHANGED <<now, configVars, last_check, tick_due, deliveryVars, deliveryHist,
                   schedHist, mentionVars>>

InitTranslate ==
    /\ now = TriggerTime
    /\ feeds = [verge |-> <<>>, cnet |-> <<>>]
    /\ channel_ids = <<MentionChannel>>
    /\ strict_tech_filter = TRUE
    /\ last_check = AbsentFile
    /\ tick_due = FALSE
    /\ InitDelivery
    /\ InitMention
    /\ call = NoCall

Translate ==
    \E sentences \in Texts, failAt \in 0..MaxSentences :
        CallTranslateToMongolian(sentences, failAt)

NextTranslate == Translate

SpecTranslate == InitTranslate /\ [][NextTranslate]_vars

IsTranslation == call.fn = "translate_to_mongolian"

RECURSIVE Flatten(_)
Flatten(seqs) == IF seqs = <<>> THEN <<>> ELSE Head(seqs) \o Flatten(Tail(seqs))

(* C34: every piece that translate_to_mongolian passes to the backend is   *)
(* at most 500 characters long; when the backend fails on none, every      *)
(* sentence of the text is passed exactly once, in its order, and the      *)
(* result is the translated pieces in that order.                          *)
C34_PiecesWithinLimitInOrder ==
    IsTranslation =>
        /\ \A k \in DOMAIN call.passed : call.passed[k].len <= max_chunk_size
        /\ ~call.failed =>
              /\ Flatten([k \in DOMAIN call.passed |-> call.passed[k].ids]) = Ids(call.text)
              /\ call.result = [k \in DOMAIN call.passed |-> <<"mn", call.passed[k].ids>>]

----------------------------------------------------------------------------
(* SpecNormalize: the description of an entry, clean_html and the cut of   *)
(* lines 236-238.  A text is a sequence of runs of characters: a word of   *)
(* len letters without markup, a blank of len whitespace characters, a tag *)
(* such as <b> of len characters, and an escaped tag such as &lt;b&gt;,    *)
(* the same tag with each angle bracket written as a character reference   *)
(* of four characters.  Neighbouring words are one word, neighbouring      *)
(* blanks one blank.                                                       *)

DescriptionBudget == 300
EllipsisMarker == [kind |-> "word", len |-> 3]      \* "..."

MaxRuns == 3     \* runs of a description given to the normalizer

Word(n) == [kind |-> "word", len |-> n]
Blank(n) == [kind |-> "blank", len |-> n]
Tag(n) == [kind |-> "tag", len |-> n]
EscapedTag(n) == [kind |-> "escaped", len |-> n + 6]     \* &lt; and &gt; for < and >

(* text + run *)
Join(text, run) ==
    IF text # <<>> /\ text[Len(text)].kind = run.kind /\ run.kind \in {"word", "blank"}
    THEN [text EXCEPT ![Len(text)].len = @ + run.len]
    ELSE Append(text, run)

RECURSIVE CharLen(_)
CharLen(text) == IF text = <<>> THEN 0 ELSE Head(text).len + CharLen(Tail(text))

(* BeautifulSoup(html_text, 'html.parser').get_text() (lines 99-100): the  *)
(* tags are left out, the character references are replaced by their      *)
(* characters, the text nodes are joined with nothing between them         *)
RECURSIVE GetText(_, _)
GetText(html_text, acc) ==
    IF html_text = <<>> THEN acc
    ELSE LET run == Head(html_text) IN
         GetText(Tail(html_text),
                 CASE run.kind = "tag" -> acc
                   [] run.kind = "escaped" ->
                         Append(acc, Tag(run.len - 6))
                   [] OTHER -> Join(acc, run))

(* re.sub(r'\s+', ' ', text) (line 101) *)
CollapseWhitespace(text) ==
    [i \in DOMAIN text |-> IF text[i].kind = "blank" THEN Blank(1) ELSE text[i]]

(* .strip() (line 101) *)
StripText(text) ==
    LET from == IF text # <<>> /\ text[1].kind = "blank" THEN 2 ELSE 1
        to   == IF text # <<>> /\ text[Len(text)].kind = "blank"
                THEN Len(text) - 1 ELSE Len(text)
    IN  SubSeq(text, from, to)

(* clean_html, lines 96-104 *)
CleanHtml(html_text) == StripText(CollapseWhitespace(GetText(html_text, <<>>)))

(* text[:n] *)
RECURSIVE Slice(_, _)
Slice(text, n) ==
    IF text = <<>> \/ n <= 0 THEN <<>>
    ELSE IF Head(text).len <= n THEN <<Head(text)>> \o Slice(Tail(text), n - Head(text).len)
    ELSE << [Head(text) EXCEPT !.len = n] >>

(* lines 236-238: the description of the article made from the entry *)
Description(html_text) ==
    LET description == CleanHtml(html_text) IN
    IF CharLen(description) > DescriptionBudget
    THEN Join(Slice(description, DescriptionBudget), EllipsisMarker)
    ELSE description

(* the cut at the budget falls inside a tag that get_text produced *)
CutsATag(text) ==
    \E i \in DOMAIN text :
        /\ text[i].kind = "tag"
        /\ CharLen(SubSeq(text, 1, i - 1)) < DescriptionBudget
        /\ DescriptionBudget < CharLen(SubSeq(text, 1, i))

SomeRuns ==
    {Word(1), Word(150), Word(299), Word(300), Blank(1), Blank(2), Tag(3), EscapedTag(3)}

(* the descriptions served; left out are those that the cut would end in   *)
(* the middle of a tag                                                     *)
Descriptions ==
    {text \in UNION { [1..n -> SomeRuns] : n \in 0..MaxRuns } :
        ~CutsATag(CleanHtml(text))}

(* the normalization applied to entry.description, and to its own output *)
CallDescription(html_text) ==
    /\ call = NoCall
    /\ call' = [fn |-> "clean_html", html_text |-> html_text,
                description |-> Description(html_text),
                again |-> Description(Description(html_text))]
    /\ UNCHANGED <<now, configVars, last_check, tick_due, deliveryVars, deliveryHist,
                   schedHist, mentionVars>>

InitNormalize ==
    /\ now = TriggerTime
    /\ feeds = [verge |-> <<>>, cnet |-> <<>>]
    /\ channel_ids = <<MentionChannel>>
    /\ strict_tech_filter = TRUE
    /\ last_check = AbsentFile
    /\ tick_due = FALSE
    /\ InitDelivery
    /\ InitMention
    /\ call = NoCall

Normalize == \E html_text \in Descriptions : CallDescription(html_text)

NextNormalize == Normalize

SpecNormalize == InitNormalize /\ [][NextNormalize]_vars

IsDescription == call.fn = "clean_html"

(* C35: the normalization of a description is idempotent, also on an       *)
(* output that was cut and carries the ellipsis, and its result is never   *)
(* longer than the budget plus the ellipsis marker, 303 characters.        *)
C35_NormalizationIdempotent ==
    IsDescription =>
        /\ call.again = call.description
        /\ CharLen(call.description) <= DescriptionBudget + EllipsisMarker.len

----------------------------------------------------------------------------
(* SpecWriters: everything that runs in the bot around the trigger hour:   *)
(* the tasks.loop, the !news command, the !status command, and the         *)
(* mentions with their handlers, interleaving at their awaits.  One        *)
(* channel and one recent article, so that no run sleeps between articles  *)
(* or channels; the clock goes from the hour before the trigger hour into  *)
(* it.                                                                     *)

InitWriters ==
    /\ now = TriggerTime - HourSeconds
    /\ feeds = [verge |-> <<VergeEntry(1)>>, cnet |-> <<>>]
    /\ channel_ids = <<MentionChannel>>
    /\ strict_tech_filter = TRUE
    /\ last_check \in {AbsentFile, ValidFile(TriggerTime - DaySeconds)}
    /\ tick_due = TRUE
    /\ InitDelivery
    /\ InitMention
    /\ call = NoCall

WritersHour == now < TriggerTime /\ AdvanceHour

WritersStatus == BotStatus

(* the runs of the pipeline, every lookup and send succeeding *)
WritersTick == NewsCheckTask(TRUE, TRUE) /\ UNCHANGED <<deliveryHist, schedHist>>
WritersCommand == FetchNewsCommand(TRUE) /\ UNCHANGED <<deliveryHist, schedHist, unitVars>>
WritersCommandRun ==
    FetchNewsRun("ok", TRUE, TRUE) /\ UNCHANGED <<deliveryHist, schedHist, unitVars>>
WritersCommandDone == FetchNewsDone("ok") /\ UNCHANGED <<deliveryHist, schedHist, unitVars>>
WritersResolve ==
    \E p \in Runs : ResolveChannel(p, "embed") /\ UNCHANGED <<deliveryHist, schedHist>>
WritersSend == \E p \in Runs : SendArticle(p, "ok") /\ UNCHANGED <<deliveryHist, schedHist>>
WritersFinish ==
    \E p \in Runs, io \in SaveOutcomes :
        FinishRun(p, io) /\ UNCHANGED <<deliveryHist, schedHist, unitVars>>

(* the mentions of one message, one handler at a time, every outcome of    *)
(* every await                                                             *)
WritersMention ==
    \E news \in BOOLEAN, perm \in PermissionOutcomes :
        OnMessage(<<1, MentionChannel>>, news, perm, 1) /\ UNCHANGED <<now, mentionFrame>>

NextWriters ==
    \/ WritersHour \/ WritersStatus
    \/ WritersTick \/ WritersCommand \/ WritersCommandRun \/ WritersCommandDone
    \/ WritersResolve \/ WritersSend \/ WritersFinish
    \/ WritersMention \/ MentionAwait \/ MentionSleep

SpecWriters == InitWriters /\ [][NextWriters]_vars

(* the step is the end of save_last_check_time in a run of the pipeline *)
RunSaves(p) == pc[p] = "save" /\ pc'[p] = ReturnTo(p) /\ successful_posts[p] > 0

(* the step belongs to on_message or a mention handler, or to !status *)
MentionOrStatusStep == mentionVars' # mentionVars \/ call' # call

(* C36: the watermark is written only by a pipeline run, started by the    *)
(* scheduler or by the !news command; a step of a mention-triggered        *)
(* request or of the status command leaves the watermark as it is, and     *)
(* with it the decision of the scheduler whether a run is due.             *)
C36_WatermarkSingleWriter ==
    [][ /\ last_check' # last_check => \E p \in Runs : RunSaves(p)
        /\ MentionOrStatusStep =>
              /\ last_check' = last_check
              /\ ScheduledRunDue' <=> ScheduledRunDue ]_vars

(* a mention-triggered request delivered an article in the hour before the *)
(* trigger hour, !status was used, and the scheduled run of the trigger    *)
(* hour has run and written the watermark                                  *)
C36_Witness ==
    /\ \E h \in Handlers : hpc[h] = "post_sleep"
    /\ \E k \in Keys : processed_at[k] = TriggerTime - HourSeconds
    /\ call.fn = "bot_status"
    /\ now = TriggerTime
    /\ pc["cmd"] = "idle" /\ force["cmd"] = FALSE
    /\ pc["sched"] = "idle"
    /\ last_check = ValidFile(TriggerTime)

----------------------------------------------------------------------------
(* SpecRelevance: the three ways an article reaches a channel, the         *)
(* scheduled run, the !news command and a mention-triggered request, over  *)
(* feeds whose entries are inside or outside the time window and pass or   *)
(* fail is_tech_news, with the strict filter on and off.  Every lookup and *)
(* send succeeds.  One request is followed at a time: each sends from its  *)
(* own local list `articles`.  `delivered` is the log of what was sent:    *)
(* who sent it and the link of the article.                                *)

(* <<published, tech>> of the entries served *)
RelevanceKinds == WindowTimes \X BOOLEAN

RelevanceFeeds ==
    { [verge |-> [i \in DOMAIN v |-> FeedEntry("verge", i, i, v[i][1], TRUE, v[i][2])],
       cnet |-> [i \in DOMAIN c |->
                    FeedEntry("cnet", i, MaxVerge + i, c[i][1], TRUE, c[i][2])]] :
        v \in [1..MaxVerge -> RelevanceKinds],
        c \in UNION { [1..n -> {<<TriggerTime - HourSeconds, TRUE>>}] : n \in 0..MaxCnet } }

(* channel.send accepted the article: who sent it and its link *)
Sent(by, article) == [by |-> by, link |-> article.link]

LogSent(by, article) ==
    delivered' = IF \E k \in DOMAIN delivered : delivered[k] = Sent(by, article)
                 THEN delivered
                 ELSE Append(delivered, Sent(by, article))

NoRequest == (\A p \in Runs : pc[p] = "idle") /\ (\A h \in Handlers : hpc[h] = "idle")

InitRelevance ==
    /\ now = TriggerTime
    /\ feeds \in RelevanceFeeds
    /\ channel_ids = <<MentionChannel>>
    /\ strict_tech_filter \in BOOLEAN
    /\ last_check = AbsentFile
    /\ tick_due = TRUE
    /\ InitDelivery
    /\ InitMention
    /\ call = NoCall

RelevanceTick ==
    NoRequest /\ NewsCheckTask(TRUE, TRUE) /\ UNCHANGED <<deliveryHist, schedHist>>
RelevanceCommand ==
    NoRequest /\ FetchNewsCommand(TRUE) /\ UNCHANGED <<deliveryHist, schedHist, unitVars>>
RelevanceCommandRun ==
    FetchNewsRun("ok", TRUE, TRUE) /\ UNCHANGED <<deliveryHist, schedHist, unitVars>>
RelevanceCommandDone ==
    FetchNewsDone("ok") /\ UNCHANGED <<deliveryHist, schedHist, unitVars>>
RelevanceResolve ==
    \E p \in Runs, r \in {"plain", "embed"} :
        ResolveChannel(p, r) /\ UNCHANGED <<deliveryHist, schedHist>>
RelevanceSend ==
    \E p \in Runs :
        /\ SendArticle(p, "ok")
        /\ LogSent(p, articles[p][ai[p]])
        /\ UNCHANGED <<deliveryHist, runs_started, restarts>>
RelevancePaceArticle ==
    \E p \in Runs : ArticleSleep(p) /\ UNCHANGED <<deliveryHist, schedHist>>
RelevanceFinish ==
    \E p \in Runs : FinishRun(p, "ok") /\ UNCHANGED <<deliveryHist, schedHist, unitVars>>

RelevanceMention ==
    NoRequest /\ OnMessage(<<1, MentionChannel>>, TRUE, "embed", 1) /\ UNCHANGED <<now, mentionFrame>>
RelevanceAwait ==
    \E o \in {"ok", "Forbidden"} :
        /\ HandlerAwait(1, o, TRUE, TRUE)
        /\ IF hpc[1] \in {"post", "post_plain"} /\ o = "ok"
           THEN LogSent("mention", harticles[1][hai[1]])
           ELSE UNCHANGED delivered
        /\ UNCHANGED <<now, configVars, unitVars, last_check, tick_due, deliveryVars,
                       deliveryHist, runs_started, restarts>>

NextRelevance ==
    \/ RelevanceTick \/ RelevanceCommand \/ RelevanceCommandRun \/ RelevanceCommandDone
    \/ RelevanceResolve \/ RelevanceSend \/ RelevancePaceArticle \/ RelevanceFinish
    \/ RelevanceMention \/ RelevanceAwait \/ MentionSleep

SpecRelevance == InitRelevance /\ [][NextRelevance]_vars

(* the entry that the article with this link was made from *)
EntriesServed == {feeds.verge[i] : i \in DOMAIN feeds.verge}
                 \cup {feeds.cnet[i] : i \in DOMAIN feeds.cnet}

(* C37: every article sent to a channel, by the scheduled run, the !news   *)
(* command or a mention-triggered request, was made from an entry newer    *)
(* than the 36-hour cutoff at the time of the fetch and, with the strict   *)
(* filter on, classified relevant by is_tech_news; with the filter off     *)
(* only the time window applies.                                           *)
C37_OnlyRelevantRecentArticlesSent ==
    \A k \in DOMAIN delivered :
        \E entry \in EntriesServed :
            /\ entry.link = delivered[k].link
            /\ entry.published > now - LookbackHours * HourSeconds
            /\ strict_tech_filter => entry.tech

(* with the filter on, the three paths have each sent the one entry of The *)
(* Verge that is recent and relevant, and not the recent one that fails    *)
(* is_tech_news                                                            *)
C37_Witness ==
    /\ strict_tech_filter
    /\ ~feeds.verge[1].tech /\ feeds.verge[1].published > CutoffTime
    /\ feeds.verge[2].tech /\ feeds.verge[2].published > CutoffTime
    /\ feeds.cnet = <<>>
    /\ {delivered[k] : k \in DOMAIN delivered} =
          {Sent(by, feeds.verge[2]) : by \in {"sched", "cmd", "mention"}}

----------------------------------------------------------------------------
(* SpecRepeat: on_message and its handlers as in SpecDebounce, with the    *)
(* suppressed repeats counted.  `call` holds, per key, how many repeats    *)
(* were suppressed since the key was last processed, and how many had been *)
(* when the last processed mention arrived; the counts stop at MaxRepeats. *)

MaxRepeats == 2      \* suppressed repeats of a key that are counted

NoRepeats == [fn |-> "on_message", repeats |-> [k \in Keys |-> 0], passed |-> 0]

RepeatMention ==
    \E key \in Keys, news \in BOOLEAN, perm \in PermissionOutcomes, h \in Handlers :
        /\ OnMessage(key, news, perm, h)
        /\ call' = IF InCooldown(recent_mentions, key, now)
                   THEN [call EXCEPT !.repeats[key] = Min(@ + 1, MaxRepeats)]
                   ELSE [call EXCEPT !.repeats[key] = 0, !.passed = call.repeats[key]]
        /\ UNCHANGED <<now, configVars, last_check, tick_due, deliveryVars, deliveryHist,
                       schedHist>>

NextRepeat == MentionClock \/ RepeatMention \/ DebounceAwait \/ MentionSleep

InitRepeat ==
    /\ now = TriggerTime
    /\ feeds = [verge |-> [i \in 1..MaxVerge |-> VergeEntry(i)],
                cnet |-> [i \in 1..MaxCnet |-> CnetEntry(i)]]
    /\ channel_ids = <<MentionChannel>>
    /\ strict_tech_filter = TRUE
    /\ last_check = AbsentFile
    /\ tick_due = TRUE
    /\ InitDelivery
    /\ InitMention
    /\ call = NoRepeats

SpecRepeat == InitRepeat /\ [][NextRepeat]_vars

(* C38: a suppressed repeat does not refresh the record of its key, which  *)
(* stays the time the key was last processed; so a mention arriving 30     *)
(* seconds or more after the last processed occurrence of its key is       *)
(* processed, however many repeats were suppressed in between.             *)
C38_SuppressedRepeatDoesNotRefresh ==
    /\ \A k \in Keys : recent_mentions[k] # NoTime => recent_mentions[k] = processed_at[k]
    /\ (last_event.outcome # "none" /\ ~last_event.within)
          => last_event.outcome \in {"news", "general"}

(* a key was processed, MaxRepeats or more repeats of it were suppressed,  *)
(* and the repeat that arrived 30 seconds after the processed one has just *)
(* been processed                                                          *)
C38_Witness ==
    /\ last_event.outcome \in {"news", "general"}
    /\ ~last_event.within
    /\ call.passed = MaxRepeats
    /\ processed_at[last_event.key] = now
    /\ now = TriggerTime + MentionCooldownSeconds
    /\ call.repeats[last_event.key] = 0

----------------------------------------------------------------------------
(* SpecForce: fetch_and_post_news called twice from the same state, first  *)
(* with force=False and then with force=True, the feeds, the chat platform *)
(* and the file system answering the second run as they answered the       *)
(* first.  `delivered` is the log of the run in progress: every answer     *)
(* with the place it was given at and, for a send, the channel, the        *)
(* article and the message.  `call` keeps the starting watermark, the      *)
(* answers of the feeds and, once the first run is over, its log and the   *)
(* watermark it left.                                                      *)

Answer(p, at, response) ==
    [at |-> at, response |-> response, channel |-> channel_ids[ti[p]],
     article |-> IF at = "send" THEN ai[p] ELSE 0,
     msg |-> IF at = "send" /\ response = "ok" THEN Rendered(p, "ok", "ok") ELSE NoMessage]

(* the second run is answered as the first was at the same place *)
SameAnswer(p, at, response) ==
    call.phase = 2 =>
        /\ Len(delivered) < Len(call.first.log)
        /\ call.first.log[Len(delivered) + 1].at = at
        /\ call.first.log[Len(delivered) + 1].response = response

InitForce ==
    /\ now = TriggerTime
    /\ InitConfig
    /\ InitDelivery
    /\ InitMention
    /\ call = [fn |-> "fetch_and_post_news", phase |-> 0]

(* await self.fetch_and_post_news(force=False) *)
ForceFirst ==
    \E vergeUp \in BOOLEAN, cnetUp \in BOOLEAN,
       start \in {AbsentFile, ValidFile(TriggerTime - DaySeconds)} :
        /\ call.phase = 0
        /\ BeginRun("sched", vergeUp, cnetUp, FALSE)
        /\ last_check' = start
        /\ call' = [fn |-> "fetch_and_post_news", phase |-> 1, start |-> start,
                    vergeUp |-> vergeUp, cnetUp |-> cnetUp]
        /\ UNCHANGED <<now, configVars, tick_due, mentionVars, deliveryHist, schedHist>>

(* the first run is over: back to the starting state, and                  *)
(* await self.fetch_and_post_news(force=True)                              *)
ForceSecond ==
    /\ call.phase = 1 /\ pc["sched"] = "idle"
    /\ BeginRun("sched", call.vergeUp, call.cnetUp, TRUE)
    /\ last_check' = call.start
    /\ delivered' = <<>>
    /\ call' = [fn |-> "fetch_and_post_news", phase |-> 2, start |-> call.start,
                vergeUp |-> call.vergeUp, cnetUp |-> call.cnetUp,
                first |-> [log |-> delivered, watermark |-> last_check]]
    /\ UNCHANGED <<now, configVars, tick_due, mentionVars, deliveryHist, runs_started,
                   restarts>>

ForceResolve ==
    \E r \in {"missing", "perm_error", "plain", "embed"} :
        /\ call.phase \in {1, 2}
        /\ SameAnswer("sched", "resolve", r)
        /\ ResolveChannel("sched", r)
        /\ delivered' = Append(delivered, Answer("sched", "resolve", r))
        /\ UNCHANGED <<deliveryHist, runs_started, restarts>>

ForceSend ==
    \E o \in SendOutcomes :
        /\ call.phase \in {1, 2}
        /\ SameAnswer("sched", "send", o)
        /\ SendArticle("sched", o)
        /\ delivered' = Append(delivered, Answer("sched", "send", o))
        /\ UNCHANGED <<deliveryHist, runs_started, restarts>>

ForcePaceArticle == ArticleSleep("sched") /\ UNCHANGED <<deliveryHist, schedHist>>
ForcePaceChannel == ChannelSleep("sched") /\ UNCHANGED <<deliveryHist, schedHist>>

ForceFinish ==
    \E io \in SaveOutcomes :
        /\ call.phase \in {1, 2}
        /\ SameAnswer("sched", "save", io)
        /\ FinishRun("sched", io)
        /\ delivered' = Append(delivered, Answer("sched", "save", io))
        /\ UNCHANGED <<deliveryHist, runs_started, restarts, unitVars>>

NextForce ==
    \/ ForceFirst \/ ForceSecond \/ ForceResolve \/ ForceSend
    \/ ForcePaceArticle \/ ForcePaceChannel \/ ForceFinish

SpecForce == InitForce /\ [][NextForce]_vars

SecondRun == call.fn = "fetch_and_post_news" /\ call.phase = 2

(* C39: a run with force=True, started from the state and given the        *)
(* answers of a run with force=False, asks for an answer at the same       *)
(* places, sends the same messages to the same channels in the same order  *)
(* and leaves the same watermark.                                          *)
C39_ForceChangesNothing ==
    SecondRun =>
        /\ Len(delivered) <= Len(call.first.log)
        /\ \A k \in DOMAIN delivered : delivered[k] = call.first.log[k]
        /\ pc["sched"] \in {"resolve", "send", "save"} =>
              /\ Len(delivered) < Len(call.first.log)
              /\ call.first.log[Len(delivered) + 1].at = pc["sched"]
        /\ pc["sched"] = "idle" =>
              /\ delivered = call.first.log
              /\ last_check = call.first.watermark

(* both runs are over; they sent to two channels, one send failed, and the *)
(* watermark was written                                                   *)
C39_Witness ==
    /\ SecondRun /\ pc["sched"] = "idle" /\ force["sched"]
    /\ delivered = call.first.log
    /\ \E i, j \in DOMAIN delivered :
          /\ delivered[i].at = "send" /\ delivered[i].response = "ok"
          /\ delivered[j].at = "send" /\ delivered[j].response = "HTTPException"
          /\ delivered[i].channel # delivered[j].channel
    /\ last_check = ValidFile(now)
    /\ call.start = AbsentFile

----------------------------------------------------------------------------
(* SpecReady: on_ready at the initial connect and at every reconnect, and  *)
(* the iterations of every started instance of the tasks.loop, followed in *)
(* `call`: the task of the Loop object, the instances started, their       *)
(* iterations that are due, and the scheduled runs the iterations of the   *)
(* current tick have started.                                              *)

MaxReadies == 3     \* on_ready events: the initial connect and the reconnects

NoLoop == [fn |-> "on_ready", task |-> "none", loops |-> 0, due |-> 0,
           readies |-> 0, started |-> 0]

(* Loop.is_running *)
IsRunning(loop) == loop.task = "running"

(* Loop.start: a new task, whose first iteration runs at once *)
LoopStart(loop) ==
    [loop EXCEPT !.task = "running", !.loops = @ + 1, !.due = @ + 1]

readyFrame == <<now, configVars, last_check, tick_due, deliveryVars, deliveryHist,
                schedHist, mentionVars>>

(* on_ready that starts the task without asking whether it runs *)
OnReadyStartsAlways ==
    /\ call.readies < MaxReadies
    /\ call' = [LoopStart(call) EXCEPT !.readies = @ + 1]
    /\ UNCHANGED readyFrame

(* on_ready, lines 335-341 *)
OnReady ==
    /\ call.readies < MaxReadies
    /\ call' = [(IF ~IsRunning(call) THEN LoopStart(call) ELSE call)
                    EXCEPT !.readies = @ + 1]
    /\ UNCHANGED readyFrame

(* sixty minutes pass: every running instance has its next iteration due *)
ReadyHour ==
    /\ call.due = 0 /\ pc["sched"] = "idle"
    /\ now < TriggerTime + HourSeconds
    /\ now' = (now \div HourSeconds) * HourSeconds + LoopMinutes * 60
    /\ call' = [call EXCEPT !.due = call.loops, !.started = 0]
    /\ UNCHANGED <<configVars, last_check, tick_due, deliveryVars, deliveryHist,
                   schedHist, mentionVars>>

(* one iteration of news_check_task, of one instance *)
ReadyTick ==
    \E vergeUp \in BOOLEAN :
        /\ call.due > 0 /\ pc["sched"] = "idle"
        /\ call' = [call EXCEPT !.due = @ - 1,
                                !.started = IF ScheduledRunDue THEN @ + 1 ELSE @]
        /\ IF ScheduledRunDue
           THEN BeginRun("sched", vergeUp, TRUE, FALSE)
           ELSE UNCHANGED deliveryVars
        /\ UNCHANGED <<now, configVars, last_check, tick_due, deliveryHist, schedHist,
                       mentionVars>>

ReadyResolve ==
    \E r \in {"plain", "embed"} :
        ResolveChannel("sched", r) /\ UNCHANGED <<deliveryHist, schedHist>>
ReadySend == SendArticle("sched", "ok") /\ UNCHANGED <<deliveryHist, schedHist>>
ReadyPaceChannel == ChannelSleep("sched") /\ UNCHANGED <<deliveryHist, schedHist>>
ReadyFinish ==
    \E io \in SaveOutcomes :
        FinishRun("sched", io) /\ UNCHANGED <<deliveryHist, schedHist, unitVars>>

InitReady ==
    /\ now = TriggerTime - HourSeconds
    /\ feeds = [verge |-> <<VergeEntry(1)>>, cnet |-> <<>>]
    /\ channel_ids = <<101, 102>>
    /\ strict_tech_filter = TRUE
    /\ last_check \in {AbsentFile, ValidFile(TriggerTime - DaySeconds)}
    /\ tick_due = FALSE
    /\ InitDelivery
    /\ InitMention
    /\ call = NoLoop

NextReady ==
    \/ OnReady \/ ReadyHour \/ ReadyTick
    \/ ReadyResolve \/ ReadySend \/ ReadyPaceChannel \/ ReadyFinish

SpecReady == InitReady /\ [][NextReady]_vars

(* C40: after any number of on_ready events at most one instance of the    *)
(* scheduler loop is running, and the iterations of one tick never start   *)
(* two scheduled runs.                                                     *)
C40_OneSchedulerLoop == call.loops <= 1 /\ call.started <= 1

(* after a reconnect, the one instance has started a scheduled run *)
C40_Witness ==
    /\ call.readies >= 2
    /\ call.loops = 1
    /\ call.started = 1
    /\ InRun("sched")

====
